---- MODULE Spec2Model ----
(***************************************************************************)
(* Request/response coordination of the document converter (converter.js): *)
(* the window 'message' listener, the pending-request map, the worker      *)
(* message handler, the worker thread script and the start-up sequence.    *)
(*                                                                         *)
(* One action is one handler run: handlers run to completion on the main   *)
(* thread; the worker thread runs beside it and shares the Emscripten      *)
(* filesystem (zHM.FS).                                                    *)
(*                                                                         *)
(* Beside it, coi-serviceworker.js: the service worker (fetch and message  *)
(* listeners, the slot for POSTed files) and the part of the script that   *)
(* runs in the page (registration and reload).                             *)
(***************************************************************************)
EXTENDS Integers, Sequences, FiniteSets, TLC

VARIABLES
    allowedOriginsParam, \* urlParams.get('origins'): null, or the parameter's
                      \* text as the sequence of its comma-separated pieces
    allowedOrigins,   \* parsed ?origins= whitelist; [isNull, list]
    embedded,         \* window.parent !== window
    initState,        \* position of initZetaJS: "idle" | "started" | "failed"
    zHM,              \* TRUE once new ZetaHelperMain(...) has returned
    thrPort,          \* TRUE once zHM.thrPort exists
    onmessage,        \* TRUE once zHM.thrPort.onmessage is our handler
    pendingSetups,    \* deferred setupMessageHandler calls: start callback, timers
    moduleReady,      \* let moduleReady
    pendingRequests,  \* Map requestId -> {source, targetOrigin, format}
    FS,               \* zHM.FS: path -> file content, for the files that exist
    toWorker,         \* messages posted on thrPort by the main thread, in order
    fromWorker,       \* messages posted on thrPort by the worker thread, in order
    worker,           \* the worker thread: [state, cmd, doc]
    outbox,           \* every window message posted so far, in order
    calls,            \* history: the inbound window messages handled so far
    last,             \* history: the latest run of handleWorkerMessage, the
                      \* branch it took and the requestId it was given
    coepCredentialless, \* coi-serviceworker.js: let coepCredentialless
    pendingPostData,  \* coi-serviceworker.js: let pendingPostData
    fetches,          \* the fetch events being handled, in order of arrival,
                      \* each with the point its handling has reached
    nFetches,         \* history: the number of fetch events received
    answered,         \* history: the fetch event that ended last and the
                      \* response it ended with
    clientInbox,      \* messages the service worker posted to its clients
    swMsgs,           \* history: the number of message events the service
                      \* worker handled
    coiReloadedBySelf, \* sessionStorage item "coiReloadedBySelf" of the tab
    coiPage,          \* the page loaded in the tab and how far the client part
                      \* of coi-serviceworker.js has come in it
    nLoads            \* history: the number of page loads of the tab

vars == <<allowedOriginsParam, allowedOrigins, embedded, initState, zHM, thrPort, onmessage,
          pendingSetups, moduleReady, pendingRequests, FS,
          toWorker, fromWorker, worker, outbox, calls, last,
          coepCredentialless, pendingPostData, fetches, nFetches, answered,
          clientInbox, swMsgs, coiReloadedBySelf, coiPage, nLoads>>

\* state of the client part of coi-serviceworker.js, run by every page load
coiVars == <<coiReloadedBySelf, coiPage, nLoads>>
\* state of the service worker (coi-serviceworker.js), a script of its own
swVars == <<coepCredentialless, pendingPostData, fetches, nFetches, answered,
            clientInbox, swMsgs>>
\* state of the converter page (converter.js)
pageVars == <<allowedOriginsParam, allowedOrigins, embedded, initState, zHM, thrPort, onmessage,
              pendingSetups, moduleReady, pendingRequests, FS,
              toWorker, fromWorker, worker, outbox, calls, last>>

\* state owned by the coordinator's conversion path
convVars == <<pendingRequests, FS, toWorker>>
\* state of the start-up sequence
initVars == <<initState, zHM, thrPort, onmessage, pendingSetups>>
\* configuration fixed when the page loads
cfgVars == <<allowedOriginsParam, allowedOrigins, embedded>>

----------------------------------------------------------------------------
(* Bounds of the model *)

\* inbound window messages handled in one run
MaxMsgs == 2
\* the same, in the specifications that vary the worker channel or the handshake
MaxStrayMsgs == 1
\* the same, in the specification of repeated conversions from one window
MaxFaultMsgs == 3
\* fetch events and message events the service worker receives in one run
MaxSwEvents == 3
\* page loads of one tab in one run
MaxLoads == 10

----------------------------------------------------------------------------
(* Values *)

Undefined == "undefined"      \* a property the message does not carry
OriginA == "https://a"
OriginB == "https://b"
NullOrigin == "null"          \* origin of file:// pages and sandboxed iframes
NoOrigin == ""                \* an event without origin
Wildcard == "*"
Origins == {OriginA, OriginB, NullOrigin, NoOrigin}

\* the windows that post messages, each with the origin it posts from
Requesters == { [source |-> "w1", origin |-> OriginA],
                [source |-> "w2", origin |-> OriginB],
                [source |-> "w3", origin |-> NullOrigin],
                [source |-> "w4", origin |-> NoOrigin] }
Parent == "parent"            \* window.parent

\* values of the ?origins= query parameter: absent, or a comma-separated list
OriginsParams == { <<>>, <<OriginA>> }
\* urlParams.get('origins') of a URL without the parameter: null
NoParam == << >>
\* the text of a parameter given without a value (?origins=): one empty piece
EmptyParam == << "" >>
\* more values of the parameter: empty, and a list written with a blank
\* after the comma
OriginsParamsWide == OriginsParams \cup { EmptyParam, <<OriginA, " https://b">> }

RequestIds == {"r1", "r2"}
\* values Date.now() can return while the model runs
Clock == {1000, 1001}

\* document payloads a message can carry in data.buffer or data.file
NoPayload == [kind |-> "missing", buffer |-> <<>>, byteOffset |-> 0, byteLength |-> 0]
RawBuffer == [kind |-> "ArrayBuffer", buffer |-> <<1>>, byteOffset |-> 0, byteLength |-> 1]
TypedView == [kind |-> "view", buffer |-> <<2, 3>>, byteOffset |-> 1, byteLength |-> 1]
Wrapper == [kind |-> "wrapper", buffer |-> <<4>>, byteOffset |-> 0, byteLength |-> 1]
OtherShape == [kind |-> "other", buffer |-> <<>>, byteOffset |-> 0, byteLength |-> 0]

\* inbound message data: {type, buffer, file, format, requestId}
ConvertMessage(buffer, file, format, requestId) ==
    [type |-> "convert", buffer |-> buffer, file |-> file, format |-> format,
     requestId |-> requestId]
PingMessage(requestId) ==
    [type |-> "ping", buffer |-> NoPayload, file |-> NoPayload, format |-> Undefined,
     requestId |-> requestId]

\* the messages every window sends
BasicData ==
    { ConvertMessage(RawBuffer, NoPayload, "docx", "r1"), PingMessage("r1") }
\* the messages the first window sends as well: every payload shape, in
\* data.buffer or data.file, every kind of format and of request id
FullData ==
    { ConvertMessage(TypedView, NoPayload, "PDF", "r1"),
      ConvertMessage(Wrapper, NoPayload, "xyz", "r2"),
      ConvertMessage(NoPayload, RawBuffer, Undefined, Undefined),
      ConvertMessage(NoPayload, NoPayload, "docx", "r1"),
      ConvertMessage(OtherShape, NoPayload, "docx", "r2"),
      PingMessage(Undefined) }
    \cup BasicData
\* the window without origin only pings
DataOf(source) ==
    IF source = "w1" THEN FullData
    ELSE IF source = "w4" THEN { PingMessage("r1") }
    ELSE BasicData
MessageEvents ==
    UNION { { [data |-> d, origin |-> q.origin, source |-> q.source] :
                d \in DataOf(q.source) } : q \in Requesters }

NotInitialized == "ZetaJS not initialized"
NoBuffer == "No document buffer provided"
InvalidBuffer == "Invalid buffer type: expected ArrayBuffer or TypedArray"
LoadFailed == "Failed to load document"
EngineFault == "engine exception"
ReadFailed == "FS error"
ImportFailed == "import failed"

NoData == [src |-> <<>>, filter |-> ""]
NoBlob == [data |-> NoData, type |-> ""]

inputPath == "/tmp/input"

----------------------------------------------------------------------------
(* Format tables *)

KnownFormats == {"pdf", "docx", "xlsx", "pptx", "odt", "ods", "odp", "html",
                 "txt", "rtf", "png", "jpg"}

\* String.prototype.toLowerCase on the format names of the model
toLowerCase(s) == IF s = "PDF" THEN "pdf" ELSE s

\* formatExtensions[f]: the identity on the known formats, undefined elsewhere
formatExtensions(f) == IF f \in KnownFormats THEN f ELSE Undefined

filterMap(f) ==
    CASE f = "pdf" -> "writer_pdf_Export"
      [] f = "docx" -> "MS Word 2007 XML"
      [] f = "xlsx" -> "Calc MS Excel 2007 XML"
      [] f = "pptx" -> "Impress MS PowerPoint 2007 XML"
      [] f = "odt" -> "writer8"
      [] f = "ods" -> "calc8"
      [] f = "odp" -> "impress8"
      [] f = "html" -> "HTML (StarWriter)"
      [] f = "txt" -> "Text"
      [] f = "rtf" -> "Rich Text Format"
      [] f = "png" -> "writer_png_Export"
      [] f = "jpg" -> "writer_jpg_Export"
      [] OTHER -> Undefined

mimeTypes(f) ==
    CASE f = "pdf" -> "application/pdf"
      [] f = "docx" -> "application/vnd.openxmlformats-officedocument.wordprocessingml.document"
      [] f = "xlsx" -> "application/vnd.openxmlformats-officedocument.spreadsheetml.sheet"
      [] f = "pptx" -> "application/vnd.openxmlformats-officedocument.presentationml.presentation"
      [] f = "odt" -> "application/vnd.oasis.opendocument.text"
      [] f = "ods" -> "application/vnd.oasis.opendocument.spreadsheet"
      [] f = "odp" -> "application/vnd.oasis.opendocument.presentation"
      [] f = "html" -> "text/html"
      [] f = "txt" -> "text/plain"
      [] f = "rtf" -> "application/rtf"
      [] f = "png" -> "image/png"
      [] f = "jpg" -> "image/jpeg"
      [] OTHER -> Undefined

\* a || b for string-valued properties that may be undefined
OrElse(a, b) == IF a = Undefined THEN b ELSE a

\* `/tmp/output.${extension}`
outputPath(outputFormat) ==
    "/tmp/output." \o OrElse(formatExtensions(toLowerCase(outputFormat)), "pdf")

----------------------------------------------------------------------------
(* Security utilities *)

\* String.prototype.trim on the pieces of the model
trim(piece) == IF piece = " https://b" THEN OriginB ELSE piece

\* allowedOriginsParam ? allowedOriginsParam.split(',').map(trim) : null
\* (null and the empty string are falsy)
ParseAllowedOrigins(param) ==
    IF param = NoParam \/ param = EmptyParam
    THEN [isNull |-> TRUE, list |-> {}]
    ELSE [isNull |-> FALSE, list |-> { trim(param[i]) : i \in 1..Len(param) }]

\* variant: the gate admits every origin
isOriginAllowed_Open(origin) == TRUE

\* variant: the 'null' origin gets no exemption from the whitelist
isOriginAllowed_NoNull(origin) ==
    IF allowedOrigins.isNull THEN TRUE
    ELSE origin \in allowedOrigins.list

isOriginAllowed(origin) ==
    IF allowedOrigins.isNull THEN TRUE
    ELSE IF origin = NullOrigin THEN TRUE
    ELSE origin \in allowedOrigins.list

\* variant: the origin is echoed even when it is 'null' or empty
getTargetOrigin_Echo(eventOrigin) == eventOrigin

getTargetOrigin(eventOrigin) ==
    IF eventOrigin = NullOrigin \/ eventOrigin = NoOrigin THEN Wildcard
    ELSE eventOrigin

----------------------------------------------------------------------------
(* Window messages posted by the coordinator *)

\* `call` names the inbound message a posted message answers (0: none); it is
\* bookkeeping of the model, not a field of the message.
ResultMsg(source, targetOrigin, blob, format, requestId, call) ==
    [type |-> "result", source |-> source, targetOrigin |-> targetOrigin,
     blob |-> blob, format |-> format, error |-> Undefined, ready |-> FALSE,
     requestId |-> requestId, call |-> call]

ErrorMsg(source, targetOrigin, error, requestId, call) ==
    [type |-> "error", source |-> source, targetOrigin |-> targetOrigin,
     blob |-> NoBlob, format |-> Undefined, error |-> error, ready |-> FALSE,
     requestId |-> requestId, call |-> call]

PongMsg(source, targetOrigin, ready, requestId, call) ==
    [type |-> "pong", source |-> source, targetOrigin |-> targetOrigin,
     blob |-> NoBlob, format |-> Undefined, error |-> Undefined, ready |-> ready,
     requestId |-> requestId, call |-> call]

ReadyMsg ==
    [type |-> "ready", source |-> Parent, targetOrigin |-> Wildcard,
     blob |-> NoBlob, format |-> Undefined, error |-> Undefined, ready |-> FALSE,
     requestId |-> Undefined, call |-> 0]

\* notifyParent(message): posts to window.parent only when embedded
notifyParent(box, message) ==
    IF embedded THEN Append(box, message) ELSE box

----------------------------------------------------------------------------
(* The pending-request Map *)

\* pendingRequests.set(key, value): inserts, or replaces the value of a present key
MapSet(map, key, value) ==
    [k \in DOMAIN map \cup {key} |-> IF k = key THEN value ELSE map[k]]

\* pendingRequests.get(key) is truthy
MapHas(map, key) == key \in DOMAIN map

\* variant: the entry is left in the map
MapDelete_Keep(map, key) == map

\* pendingRequests.delete(key)
MapDelete(map, key) == [k \in DOMAIN map \ {key} |-> map[k]]

\* FS.writeFile(path, data)
writeFile(fs, path, data) ==
    [p \in DOMAIN fs \cup {path} |-> IF p = path THEN data ELSE fs[p]]

\* variant: nothing is deleted
unlinkBoth_Keep(fs, from, to) == fs

\* try { FS.unlink(from); FS.unlink(to) } catch {}: unlink throws on a missing
\* file, so a missing `from` leaves `to` in place
unlinkBoth(fs, from, to) ==
    IF from \notin DOMAIN fs THEN fs
    ELSE [p \in DOMAIN fs \ {from, to} |-> fs[p]]

----------------------------------------------------------------------------
(* History variables *)

\* value of `last`
Ran(handler, branch, requestId) ==
    [handler |-> handler, branch |-> branch, requestId |-> requestId]

\* the effects of convertDocument past its guard, in the order of its statements
convertDocumentEffects == <<"writeFile", "set", "postMessage">>

\* entry of `calls` for an inbound event: `ready` is moduleReady on arrival,
\* `branch` the branch the listener took, `payload` the document it came
\* with (data.buffer || data.file), `effects` what the run did to the
\* conversion state, in order
CallOf(event, branch) ==
    [type |-> event.data.type, source |-> event.source, origin |-> event.origin,
     requestId |-> event.data.requestId, ready |-> moduleReady, branch |-> branch,
     payload |-> IF event.data.buffer.kind # "missing" THEN event.data.buffer
                 ELSE event.data.file,
     effects |-> IF branch = "accepted" THEN convertDocumentEffects ELSE << >>]

\* the listener records the event it handled
Handled(event, branch) ==
    /\ calls' = Append(calls, CallOf(event, branch))
    /\ last' = last

\* number of inbound window messages handled so far
nCalls == Len(calls)

----------------------------------------------------------------------------
(* Window 'message' listener and convertDocument *)

\* variant: any object is taken for a buffer
NormalizeBuffer_Lenient(data) ==
    LET inputBuffer == IF data.buffer.kind # "missing" THEN data.buffer ELSE data.file
    IN  IF inputBuffer.kind = "missing"
        THEN [ok |-> FALSE, error |-> NoBuffer, arrayBuffer |-> <<>>]
        ELSE [ok |-> TRUE, error |-> Undefined, arrayBuffer |-> inputBuffer.buffer]

\* the listener's normalisation of data.buffer || data.file to an ArrayBuffer
NormalizeBuffer(data) ==
    LET inputBuffer == IF data.buffer.kind # "missing" THEN data.buffer ELSE data.file
    IN  IF inputBuffer.kind = "missing"
        THEN [ok |-> FALSE, error |-> NoBuffer, arrayBuffer |-> <<>>]
        ELSE IF inputBuffer.kind = "ArrayBuffer"
        THEN [ok |-> TRUE, error |-> Undefined, arrayBuffer |-> inputBuffer.buffer]
        ELSE IF inputBuffer.kind = "view"
        THEN [ok |-> TRUE, error |-> Undefined, arrayBuffer |-> inputBuffer.buffer]
        ELSE IF inputBuffer.kind = "wrapper"
        THEN [ok |-> TRUE, error |-> Undefined, arrayBuffer |-> inputBuffer.buffer]
        ELSE [ok |-> FALSE, error |-> InvalidBuffer, arrayBuffer |-> <<>>]

\* Date.now().toString()
DateNowString(now) == ToString(now)

\* data.requestId || Date.now().toString(): the ids the listener can pass on
RequestIdChoices(data) ==
    IF data.requestId # Undefined THEN {data.requestId}
    ELSE { DateNowString(now) : now \in Clock }

\* variant: the guard only throws when both are missing
convertDocumentThrows_Both == ~moduleReady /\ ~zHM

\* variant: a conversion is refused while another is outstanding
convertDocumentThrows_Busy == ~moduleReady \/ ~zHM \/ pendingRequests # << >>

\* the guard of convertDocument: if (!moduleReady || !zHM) throw
convertDocumentThrows == ~moduleReady \/ ~zHM

ConvertCmd(outputFormat, requestId) ==
    [cmd |-> "convert", from |-> inputPath, to |-> outputPath(outputFormat),
     format |-> outputFormat, requestId |-> requestId, error |-> Undefined]

\* variant: the request is registered with the wildcard as its reply target
convertDocument_Wildcard(arrayBuffer, outputFormat, requestId, source, targetOrigin, call) ==
    /\ FS' = writeFile(FS, inputPath, arrayBuffer)
    /\ pendingRequests' = MapSet(pendingRequests, requestId,
            [source |-> source, targetOrigin |-> Wildcard,
             format |-> outputFormat, call |-> call])
    /\ toWorker' = Append(toWorker, ConvertCmd(outputFormat, requestId))

\* variant: the command is posted twice
convertDocument_TwoCommands(arrayBuffer, outputFormat, requestId, source, targetOrigin, call) ==
    /\ FS' = writeFile(FS, inputPath, arrayBuffer)
    /\ pendingRequests' = MapSet(pendingRequests, requestId,
            [source |-> source, targetOrigin |-> targetOrigin,
             format |-> outputFormat, call |-> call])
    /\ toWorker' = toWorker \o << ConvertCmd(outputFormat, requestId),
                                  ConvertCmd(outputFormat, requestId) >>

\* the body of convertDocument past its guard: stage, register, command
convertDocument(arrayBuffer, outputFormat, requestId, source, targetOrigin, call) ==
    /\ FS' = writeFile(FS, inputPath, arrayBuffer)
    /\ pendingRequests' = MapSet(pendingRequests, requestId,
            [source |-> source, targetOrigin |-> targetOrigin,
             format |-> outputFormat, call |-> call])
    /\ toWorker' = Append(toWorker, ConvertCmd(outputFormat, requestId))

\* the 'convert' branch of the listener, with its catch
OnConvert(event, targetOrigin, call) ==
    LET data == event.data
        norm == NormalizeBuffer(data)
        outputFormat == OrElse(data.format, "pdf")
    IN  IF ~norm.ok
        THEN /\ outbox' = Append(outbox,
                    ErrorMsg(event.source, targetOrigin, norm.error, data.requestId, call))
             /\ Handled(event, "invalid")
             /\ UNCHANGED convVars
        ELSE IF convertDocumentThrows
        THEN /\ outbox' = Append(outbox,
                    ErrorMsg(event.source, targetOrigin, NotInitialized, data.requestId, call))
             /\ Handled(event, "notInitialized")
             /\ UNCHANGED convVars
        ELSE /\ \E requestId \in RequestIdChoices(data) :
                    convertDocument(norm.arrayBuffer, outputFormat, requestId,
                                    event.source, targetOrigin, call)
             /\ Handled(event, "accepted")
             /\ UNCHANGED outbox

\* variant: the pong always says ready
OnPing_AlwaysReady(event, targetOrigin, call) ==
    /\ outbox' = Append(outbox,
            PongMsg(event.source, targetOrigin, TRUE, event.data.requestId, call))
    /\ Handled(event, "pong")
    /\ UNCHANGED convVars

\* the 'ping' branch of the listener
OnPing(event, targetOrigin, call) ==
    /\ outbox' = Append(outbox,
            PongMsg(event.source, targetOrigin, moduleReady, event.data.requestId, call))
    /\ Handled(event, "pong")
    /\ UNCHANGED convVars

\* window.addEventListener('message', ...)
OnWindowMessage(event) ==
    /\ IF ~isOriginAllowed(event.origin)
       THEN /\ Handled(event, "dropped")
            /\ UNCHANGED <<convVars, outbox>>
       ELSE IF event.data.type = "convert"
       THEN OnConvert(event, getTargetOrigin(event.origin), nCalls + 1)
       ELSE OnPing(event, getTargetOrigin(event.origin), nCalls + 1)
    /\ UNCHANGED <<coiVars, swVars, cfgVars, initVars, moduleReady, fromWorker, worker>>

----------------------------------------------------------------------------
(* Worker message handling on the main thread *)

ReadyCmd ==
    [cmd |-> "ready", from |-> Undefined, to |-> Undefined, format |-> Undefined,
     requestId |-> Undefined, error |-> Undefined]

ConvertedReply(c) ==
    [cmd |-> "converted", from |-> c.from, to |-> c.to, format |-> c.format,
     requestId |-> c.requestId, error |-> Undefined]

ErrorReply(error, requestId) ==
    [cmd |-> "error", from |-> Undefined, to |-> Undefined, format |-> Undefined,
     requestId |-> requestId, error |-> error]

\* new Blob([outputData], {type: mimeTypes[format] || 'application/octet-stream'})
ResultBlob(outputData, format) ==
    [data |-> outputData, type |-> OrElse(mimeTypes(format), "application/octet-stream")]

\* variant: the parent is told before the flag is set
OnWorkerReady_Unset ==
    /\ moduleReady' = moduleReady
    /\ outbox' = notifyParent(outbox, ReadyMsg)
    /\ last' = Ran("worker", "ready", Undefined)
    /\ UNCHANGED convVars

\* case 'ready'
OnWorkerReady ==
    /\ moduleReady' = TRUE
    /\ outbox' = notifyParent(outbox, ReadyMsg)
    /\ last' = Ran("worker", "ready", Undefined)
    /\ UNCHANGED convVars

\* variant: a reply resolves the oldest pending request, whatever its id
OnConverted_ByArrival(d) ==
    IF pendingRequests # << >>
    THEN LET oldest == CHOOSE r \in DOMAIN pendingRequests :
                          \A q \in DOMAIN pendingRequests :
                              pendingRequests[r].call <= pendingRequests[q].call
             request == pendingRequests[oldest] IN
         /\ IF d.to \in DOMAIN FS
            THEN /\ FS' = unlinkBoth(FS, d.from, d.to)
                 /\ last' = Ran("worker", "result", d.requestId)
                 /\ outbox' = Append(outbox,
                        ResultMsg(request.source, request.targetOrigin,
                                  ResultBlob(FS[d.to], d.format), d.format,
                                  d.requestId, request.call))
            ELSE /\ FS' = FS
                 /\ last' = Ran("worker", "readFailed", d.requestId)
                 /\ outbox' = Append(outbox,
                        ErrorMsg(request.source, request.targetOrigin, ReadFailed,
                                 d.requestId, request.call))
         /\ pendingRequests' = MapDelete(pendingRequests, oldest)
         /\ UNCHANGED <<toWorker, moduleReady>>
    ELSE /\ last' = Ran("worker", "stale", d.requestId)
         /\ UNCHANGED <<convVars, outbox, moduleReady>>

\* variant: a failed deletion reaches the outer catch and is reported
OnConverted_CleanupThrows(d) ==
    IF MapHas(pendingRequests, d.requestId)
    THEN LET request == pendingRequests[d.requestId] IN
         /\ IF d.to \in DOMAIN FS /\ d.from \in DOMAIN FS
            THEN /\ FS' = unlinkBoth(FS, d.from, d.to)
                 /\ last' = Ran("worker", "result", d.requestId)
                 /\ outbox' = Append(outbox,
                        ResultMsg(request.source, request.targetOrigin,
                                  ResultBlob(FS[d.to], d.format), d.format,
                                  d.requestId, request.call))
            ELSE /\ FS' = FS
                 /\ last' = Ran("worker", "readFailed", d.requestId)
                 /\ outbox' = Append(outbox,
                        ErrorMsg(request.source, request.targetOrigin, ReadFailed,
                                 d.requestId, request.call))
         /\ pendingRequests' = MapDelete(pendingRequests, d.requestId)
         /\ UNCHANGED <<toWorker, moduleReady>>
    ELSE /\ last' = Ran("worker", "stale", d.requestId)
         /\ UNCHANGED <<convVars, outbox, moduleReady>>

\* variant: a failure to read the output takes readiness back
OnConverted_FatalRead(d) ==
    IF MapHas(pendingRequests, d.requestId)
    THEN LET request == pendingRequests[d.requestId] IN
         /\ IF d.to \in DOMAIN FS
            THEN /\ FS' = unlinkBoth(FS, d.from, d.to)
                 /\ last' = Ran("worker", "result", d.requestId)
                 /\ moduleReady' = moduleReady
                 /\ outbox' = Append(outbox,
                        ResultMsg(request.source, request.targetOrigin,
                                  ResultBlob(FS[d.to], d.format), d.format,
                                  d.requestId, request.call))
            ELSE /\ FS' = FS
                 /\ last' = Ran("worker", "readFailed", d.requestId)
                 /\ moduleReady' = FALSE
                 /\ outbox' = Append(outbox,
                        ErrorMsg(request.source, request.targetOrigin, ReadFailed,
                                 d.requestId, request.call))
         /\ pendingRequests' = MapDelete(pendingRequests, d.requestId)
         /\ UNCHANGED toWorker
    ELSE /\ last' = Ran("worker", "stale", d.requestId)
         /\ UNCHANGED <<convVars, outbox, moduleReady>>

\* case 'converted'
OnConverted(d) ==
    IF MapHas(pendingRequests, d.requestId)
    THEN LET request == pendingRequests[d.requestId] IN
         /\ IF d.to \in DOMAIN FS
            THEN /\ FS' = unlinkBoth(FS, d.from, d.to)
                 /\ last' = Ran("worker", "result", d.requestId)
                 /\ outbox' = Append(outbox,
                        ResultMsg(request.source, request.targetOrigin,
                                  ResultBlob(FS[d.to], d.format), d.format,
                                  d.requestId, request.call))
            ELSE /\ FS' = FS
                 /\ last' = Ran("worker", "readFailed", d.requestId)
                 /\ outbox' = Append(outbox,
                        ErrorMsg(request.source, request.targetOrigin, ReadFailed,
                                 d.requestId, request.call))
         /\ pendingRequests' = MapDelete(pendingRequests, d.requestId)
         /\ UNCHANGED <<toWorker, moduleReady>>
    ELSE /\ last' = Ran("worker", "stale", d.requestId)
         /\ UNCHANGED <<convVars, outbox, moduleReady>>

\* variant: an error for an unknown request is passed on to the parent
OnWorkerError_Unchecked(d) ==
    /\ outbox' = Append(outbox,
            IF MapHas(pendingRequests, d.requestId)
            THEN ErrorMsg(pendingRequests[d.requestId].source,
                          pendingRequests[d.requestId].targetOrigin, d.error,
                          d.requestId, pendingRequests[d.requestId].call)
            ELSE ErrorMsg(Parent, Wildcard, d.error, d.requestId, 0))
    /\ pendingRequests' = MapDelete(pendingRequests, d.requestId)
    /\ last' = Ran("worker", "error", d.requestId)
    /\ UNCHANGED <<FS, toWorker, moduleReady>>

\* variant: a failed conversion is sent to the worker again
OnWorkerError_Retry(d) ==
    IF MapHas(pendingRequests, d.requestId)
    THEN /\ toWorker' = Append(toWorker,
                ConvertCmd(pendingRequests[d.requestId].format, d.requestId))
         /\ last' = Ran("worker", "error", d.requestId)
         /\ UNCHANGED <<pendingRequests, FS, outbox, moduleReady>>
    ELSE /\ last' = Ran("worker", "stale", d.requestId)
         /\ UNCHANGED <<convVars, outbox, moduleReady>>

\* variant: the requester is told a fixed text instead of the worker's
OnWorkerError_Generic(d) ==
    IF MapHas(pendingRequests, d.requestId)
    THEN LET request == pendingRequests[d.requestId] IN
         /\ outbox' = Append(outbox,
                ErrorMsg(request.source, request.targetOrigin, "Conversion failed",
                         d.requestId, request.call))
         /\ pendingRequests' = MapDelete(pendingRequests, d.requestId)
         /\ last' = Ran("worker", "error", d.requestId)
         /\ UNCHANGED <<FS, toWorker, moduleReady>>
    ELSE /\ last' = Ran("worker", "stale", d.requestId)
         /\ UNCHANGED <<convVars, outbox, moduleReady>>

\* case 'error'
OnWorkerError(d) ==
    IF MapHas(pendingRequests, d.requestId)
    THEN LET request == pendingRequests[d.requestId] IN
         /\ outbox' = Append(outbox,
                ErrorMsg(request.source, request.targetOrigin, d.error,
                         d.requestId, request.call))
         /\ pendingRequests' = MapDelete(pendingRequests, d.requestId)
         /\ last' = Ran("worker", "error", d.requestId)
         /\ UNCHANGED <<FS, toWorker, moduleReady>>
    ELSE /\ last' = Ran("worker", "stale", d.requestId)
         /\ UNCHANGED <<convVars, outbox, moduleReady>>

handleWorkerMessage(d) ==
    /\ IF d.cmd = "ready" THEN OnWorkerReady
       ELSE IF d.cmd = "converted" THEN OnConverted(d)
       ELSE IF d.cmd = "error" THEN OnWorkerError(d)
       ELSE /\ last' = Ran("worker", "ignored", d.requestId)
            /\ UNCHANGED <<convVars, outbox, moduleReady>>
    /\ UNCHANGED <<coiVars, swVars, cfgVars, initVars, worker, calls>>

\* zHM.thrPort.onmessage: the next message of the worker thread is delivered
DeliverWorkerMessage ==
    /\ onmessage
    /\ fromWorker # <<>>
    /\ handleWorkerMessage(Head(fromWorker))
    /\ fromWorker' = Tail(fromWorker)

\* the sequence without its i-th element
RemoveAt(seq, i) == SubSeq(seq, 1, i - 1) \o SubSeq(seq, i + 1, Len(seq))

\* a channel that does not keep the order: a message behind the first one
\* is delivered
DeliverOutOfOrder ==
    /\ onmessage
    /\ \E i \in 2..Len(fromWorker) :
          /\ handleWorkerMessage(fromWorker[i])
          /\ fromWorker' = RemoveAt(fromWorker, i)

\* replies the worker script did not send for a command in flight: a reply
\* repeated, late, or for an id nobody registered
StrayReplies ==
    { ConvertedReply(ConvertCmd(f, r)) : f \in {"docx", "pdf"}, r \in RequestIds }
    \cup { ErrorReply(EngineFault, r) : r \in RequestIds }

StrayWorkerReply ==
    /\ onmessage
    /\ \E d \in StrayReplies : handleWorkerMessage(d)
    /\ UNCHANGED fromWorker

----------------------------------------------------------------------------
(* The worker thread script *)

NoCmd ==
    [cmd |-> "none", from |-> Undefined, to |-> Undefined, format |-> Undefined,
     requestId |-> Undefined, error |-> Undefined]

Idle == [state |-> "idle", cmd |-> NoCmd, doc |-> <<>>]

\* filterMap[format.toLowerCase()] || 'writer_pdf_Export'
filterName(format) == OrElse(filterMap(toLowerCase(format)), "writer_pdf_Export")

\* the script runs to its last line: handler installed, {cmd: 'ready'} posted
WorkerScriptStarts ==
    /\ thrPort
    /\ worker.state = "absent"
    /\ worker' = Idle
    /\ fromWorker' = Append(fromWorker, ReadyCmd)
    /\ last' = last
    /\ UNCHANGED <<coiVars, swVars, cfgVars, initVars, moduleReady, convVars, outbox, calls>>

\* variant: an exception of the engine is swallowed without a reply
WorkerLoad_Silent ==
    /\ worker.state = "idle"
    /\ toWorker # <<>>
    /\ toWorker' = Tail(toWorker)
    /\ LET c == Head(toWorker) IN
       /\ last' = last
       /\ IF c.from \notin DOMAIN FS
          THEN /\ worker' = worker
               /\ fromWorker' = Append(fromWorker, ErrorReply(LoadFailed, c.requestId))
          ELSE \E fault \in BOOLEAN :
                 IF fault
                 THEN /\ worker' = worker
                      /\ fromWorker' = fromWorker
                 ELSE /\ worker' = [state |-> "loaded", cmd |-> c, doc |-> FS[c.from]]
                      /\ fromWorker' = fromWorker
    /\ UNCHANGED <<coiVars, swVars, cfgVars, initVars, moduleReady, pendingRequests, FS, outbox, calls>>

\* zHT.thrPort.onmessage, case 'convert', up to loadComponentFromURL
WorkerLoad ==
    /\ worker.state = "idle"
    /\ toWorker # <<>>
    /\ toWorker' = Tail(toWorker)
    /\ LET c == Head(toWorker) IN
       /\ last' = last
       /\ IF c.from \notin DOMAIN FS
          THEN /\ worker' = worker
               /\ fromWorker' = Append(fromWorker, ErrorReply(LoadFailed, c.requestId))
          ELSE \E fault \in BOOLEAN :
                 IF fault
                 THEN /\ worker' = worker
                      /\ fromWorker' = Append(fromWorker, ErrorReply(EngineFault, c.requestId))
                 ELSE /\ worker' = [state |-> "loaded", cmd |-> c, doc |-> FS[c.from]]
                      /\ fromWorker' = fromWorker
    /\ UNCHANGED <<coiVars, swVars, cfgVars, initVars, moduleReady, pendingRequests, FS, outbox, calls>>

\* storeToURL, close, postMessage({cmd: 'converted', ...})
WorkerStore ==
    /\ worker.state = "loaded"
    /\ LET c == worker.cmd IN
       /\ FS' = writeFile(FS, c.to, [src |-> worker.doc, filter |-> filterName(c.format)])
       /\ fromWorker' = Append(fromWorker, ConvertedReply(c))
       /\ last' = last
    /\ worker' = Idle
    /\ UNCHANGED <<coiVars, swVars, cfgVars, initVars, moduleReady, pendingRequests, toWorker, outbox, calls>>

----------------------------------------------------------------------------
(* initZetaJS *)

\* variant: an attempt that finds no port gives up instead of polling
setupMessageHandler_Once(others) ==
    IF thrPort
    THEN /\ onmessage' = TRUE
         /\ pendingSetups' = others
    ELSE /\ onmessage' = onmessage
         /\ pendingSetups' = others

\* setupMessageHandler(): attach the handler, or poll again in 100 ms.
\* `others` counts the deferred calls that stay pending beside this one.
setupMessageHandler(others) ==
    IF thrPort
    THEN /\ onmessage' = TRUE
         /\ pendingSetups' = others
    ELSE /\ onmessage' = onmessage
         /\ pendingSetups' = others + 1

\* variant: after the catch block the initialisation may run again
InitFails_Retry ==
    /\ initState = "idle"
    /\ initState' = "idle"
    /\ outbox' = notifyParent(outbox, ErrorMsg(Parent, Wildcard, ImportFailed, Undefined, 0))
    /\ last' = last
    /\ UNCHANGED <<coiVars, swVars, cfgVars, zHM, thrPort, onmessage, pendingSetups,
                   moduleReady, convVars, fromWorker, worker, calls>>

\* the import or the ZetaHelperMain constructor throws: the catch block
InitFails ==
    /\ initState = "idle"
    /\ initState' = "failed"
    /\ outbox' = notifyParent(outbox, ErrorMsg(Parent, Wildcard, ImportFailed, Undefined, 0))
    /\ last' = last
    /\ UNCHANGED <<coiVars, swVars, cfgVars, zHM, thrPort, onmessage, pendingSetups,
                   moduleReady, convVars, fromWorker, worker, calls>>

\* the try block runs through: zHM created, zHM.start(callback) called with the
\* callback left pending, and setupMessageHandler() called once at once
InitStarts ==
    /\ initState = "idle"
    /\ initState' = "started"
    /\ zHM' = TRUE
    /\ setupMessageHandler(pendingSetups + 1)
    /\ last' = last
    /\ UNCHANGED <<coiVars, swVars, cfgVars, thrPort, moduleReady, convVars, fromWorker, worker,
                   outbox, calls>>

\* the engine creates the MessagePort while LibreOffice loads
ThrPortCreated ==
    /\ zHM
    /\ ~thrPort
    /\ thrPort' = TRUE
    /\ last' = last
    /\ UNCHANGED <<coiVars, swVars, cfgVars, initState, zHM, onmessage, pendingSetups,
                   moduleReady, convVars, fromWorker, worker, outbox, calls>>

\* a deferred setupMessageHandler() runs: the callback given to zHM.start, or
\* a setTimeout(setupMessageHandler, 100) timer
SetupAttempt ==
    /\ pendingSetups > 0
    /\ setupMessageHandler(pendingSetups - 1)
    /\ last' = last
    /\ UNCHANGED <<coiVars, swVars, cfgVars, initState, zHM, thrPort, moduleReady,
                   convVars, fromWorker, worker, outbox, calls>>

----------------------------------------------------------------------------
(* initZetaJS of the first listing: the thread script is injected *)

ThrStarted ==
    [cmd |-> "ZetaHelper::thr_started", from |-> Undefined, to |-> Undefined,
     format |-> Undefined, requestId |-> Undefined, error |-> Undefined]

\* {cmd: 'ZetaHelper::run_thr_script', threadJs: createOfficeThreadBlob(), ...}
RunThrScript ==
    [cmd |-> "ZetaHelper::run_thr_script", from |-> Undefined, to |-> Undefined,
     format |-> Undefined, requestId |-> Undefined, error |-> Undefined]

\* the try block runs through: zHM created without a thread script, the
\* callback given to zHM.start left pending
InitStartsInject ==
    /\ initState = "idle"
    /\ initState' = "started"
    /\ zHM' = TRUE
    /\ pendingSetups' = pendingSetups + 1
    /\ last' = last
    /\ UNCHANGED <<coiVars, swVars, cfgVars, thrPort, onmessage, moduleReady, convVars, fromWorker,
                   worker, outbox, calls>>

\* variant: the worker thread announces readiness as soon as it is up
ThreadStarted_Ready ==
    /\ thrPort
    /\ worker.state = "absent"
    /\ worker' = [state |-> "started", cmd |-> NoCmd, doc |-> <<>>]
    /\ fromWorker' = Append(fromWorker, ReadyCmd)
    /\ last' = last
    /\ UNCHANGED <<coiVars, swVars, cfgVars, initVars, moduleReady, convVars, outbox, calls>>

\* the engine's worker thread is up and announces it; it has no script yet
ThreadStarted ==
    /\ thrPort
    /\ worker.state = "absent"
    /\ worker' = [state |-> "started", cmd |-> NoCmd, doc |-> <<>>]
    /\ fromWorker' = Append(fromWorker, ThrStarted)
    /\ last' = last
    /\ UNCHANGED <<coiVars, swVars, cfgVars, initVars, moduleReady, convVars, outbox, calls>>

\* variant: the directive is sent on every message of the worker
onThrPortMessage_Eager(d) ==
    /\ toWorker' = Append(toWorker, RunThrScript)
    /\ last' = Ran("worker", "injected", Undefined)
    /\ UNCHANGED <<coiVars, swVars, cfgVars, initVars, worker, calls, pendingRequests, FS, outbox,
                   moduleReady>>

\* zHM.thrPort.onmessage of the first listing
onThrPortMessage(d) ==
    IF d.cmd = ThrStarted.cmd
    THEN /\ toWorker' = Append(toWorker, RunThrScript)
         /\ last' = Ran("worker", "injected", Undefined)
         /\ UNCHANGED <<coiVars, swVars, cfgVars, initVars, worker, calls, pendingRequests, FS, outbox,
                        moduleReady>>
    ELSE handleWorkerMessage(d)

DeliverInject ==
    /\ onmessage
    /\ fromWorker # <<>>
    /\ onThrPortMessage(Head(fromWorker))
    /\ fromWorker' = Tail(fromWorker)

\* the worker thread runs the injected script to its last line
WorkerRunsScript ==
    /\ worker.state = "started"
    /\ toWorker # <<>>
    /\ Head(toWorker).cmd = RunThrScript.cmd
    /\ toWorker' = Tail(toWorker)
    /\ worker' = Idle
    /\ fromWorker' = Append(fromWorker, ReadyCmd)
    /\ last' = last
    /\ UNCHANGED <<coiVars, swVars, cfgVars, initVars, moduleReady, pendingRequests, FS, outbox, calls>>

----------------------------------------------------------------------------
(* coi-serviceworker.js: the service worker *)

\* the pages the service worker controls
Clients == {"c1", "c2"}

RootUrl == "https://host/"
IndexUrl == "https://host/index.html"
UploadUrl == "https://host/document-converter/upload"
QueryUrl == "https://host/?lang=en"
ScriptUrl == "https://host/converter.js"
CdnUrl == "https://cdn/soffice.wasm"

\* r.url.endsWith("/"), on the URLs of the model
endsWithSlash(url) == url = RootUrl
\* r.url.endsWith("/index.html")
endsWithIndexHtml(url) == url = IndexUrl
\* r.url.includes("document-converter")
includesDocumentConverter(url) == url = UploadUrl

\* new URL(request.url).pathname
pathname(url) ==
    CASE url = RootUrl -> "/"
      [] url = QueryUrl -> "/"
      [] url = IndexUrl -> "/index.html"
      [] url = UploadUrl -> "/document-converter/upload"
      [] url = ScriptUrl -> "/converter.js"
      [] OTHER -> "/soffice.wasm"

\* request.url.split('?')[0]
withoutQuery(url) == IF url = QueryUrl THEN RootUrl ELSE url

\* values of formData.get("file")
NoFile == [kind |-> "none", name |-> "", bytes |-> <<>>]
TextField == [kind |-> "string", name |-> "", bytes |-> <<>>]
File(name, bytes) == [kind |-> "File", name |-> name, bytes |-> bytes]

Form(file, format, download, fullscreen) ==
    [file |-> file, format |-> format, download |-> download, fullscreen |-> fullscreen]
NoForm == Form(NoFile, Undefined, Undefined, Undefined)
FormA == Form(File("a.docx", <<1>>), "docx", "true", Undefined)
FormB == Form(File("b.odt", <<2>>), Undefined, "yes", "true")

Request(method, url, cache, mode, client, form) ==
    [method |-> method, url |-> url, cache |-> cache, mode |-> mode,
     client |-> client, form |-> form]

\* the requests the controlled pages make; `client` is the page a navigation
\* loads, or the page that fetches
Requests ==
    { Request("POST", RootUrl, "default", "navigate", "c1", FormA),
      Request("POST", UploadUrl, "default", "navigate", "c2", FormB),
      Request("POST", IndexUrl, "default", "navigate", "c1",
              Form(TextField, "docx", Undefined, Undefined)),
      Request("POST", QueryUrl, "default", "navigate", "c1", FormA),
      Request("GET", CdnUrl, "default", "no-cors", "c1", NoForm),
      Request("GET", CdnUrl, "only-if-cached", "no-cors", "c1", NoForm),
      Request("GET", ScriptUrl, "only-if-cached", "same-origin", "c1", NoForm) }

IsolationHeaders ==
    { "Cross-Origin-Embedder-Policy", "Cross-Origin-Opener-Policy",
      "Cross-Origin-Resource-Policy" }

\* a response: its status, the names of its headers, the value of its
\* embedder policy, its redirect target, whether its body has the script that
\* marks the page as loaded for staged data
Response(kind, status, headers, coep, location, marker) ==
    [kind |-> kind, status |-> status, headers |-> headers, coep |-> coep,
     location |-> location, marker |-> marker]

\* the listener returned without calling respondWith: the browser handles
\* the request as if there were no service worker
Untouched == Response("untouched", 0, {}, Undefined, Undefined, FALSE)
\* respondWith() was given undefined: the fetch fails in the page
FailedResponse == Response("none", 0, {}, Undefined, Undefined, FALSE)

\* what the network answers to fetch(request): an opaque response (status 0)
\* or a readable one
NetworkResponses ==
    { [status |-> 0, headers |-> {}, hasHead |-> FALSE],
      [status |-> 200, headers |-> {"Content-Type"}, hasHead |-> FALSE] }

\* what the network answers to fetch(url.pathname): the page, or a text
\* without a </head> tag
PageResponses ==
    { [status |-> 200, headers |-> {"Content-Type"}, hasHead |-> TRUE],
      [status |-> 404, headers |-> {}, hasHead |-> FALSE] }

\* Response.redirect(request.url.split('?')[0], 302)
Redirect(url) == Response("redirect", 302, {"Location"}, Undefined, withoutQuery(url), FALSE)

\* coepCredentialless ? "credentialless" : "require-corp"
coepValue == IF coepCredentialless THEN "credentialless" ELSE "require-corp"

\* variant: the response keeps the headers it came with
Rewritten_AsIs(response) ==
    Response("rewritten", response.status, response.headers, Undefined, Undefined, FALSE)

\* new Response(response.body, {status, statusText, headers: newHeaders})
Rewritten(response) ==
    Response("rewritten", response.status, response.headers \cup IsolationHeaders,
             coepValue, Undefined, FALSE)

\* new Response(modifiedHtml, {status: 200, statusText: "OK", headers: newHeaders}):
\* pageText.replace('</head>', ...) puts the script in when the text has the tag
Page(pageResponse) ==
    Response("page", 200,
             pageResponse.headers \cup IsolationHeaders \cup {"Content-Type"},
             coepValue, Undefined, pageResponse.hasHead)

\* the value null of pendingPostData
Null ==
    [isNull |-> TRUE, buffer |-> <<>>, filename |-> "", format |-> "",
     download |-> FALSE, fullscreen |-> FALSE, post |-> 0, page |-> ""]

\* the object stored in pendingPostData; `post` names the fetch event that
\* stored it and `page` the page that event loads: bookkeeping of the model
PostData(form, post, page) ==
    [isNull |-> FALSE, buffer |-> form.file.bytes, filename |-> form.file.name,
     format |-> OrElse(form.format, "pdf"),
     download |-> (form.download = "true"),
     fullscreen |-> (form.fullscreen = "true"), post |-> post, page |-> page]

\* a request the service worker makes itself with fetch()
Sent(method, url, credentials) ==
    [method |-> method, url |-> url, credentials |-> credentials]
NotSent == Sent("none", "", "")

\* entry of `fetches`: the id-th fetch event, its request, the await its
\* handling stands at, the request it has passed to fetch()
FetchOf(id, r, stage, sent) ==
    [id |-> id, request |-> r, stage |-> stage, sent |-> sent]

\* value of `answered`
Answer(fetch, response) == [fetch |-> fetch, response |-> response]
NoFetch ==
    Answer(FetchOf(0, Request("GET", RootUrl, "default", "navigate", "c1", NoForm),
                   "none", NotSent),
           Untouched)

\* the test of the fetch listener that diverts a request to handlePostRequest
IsUpload(r) ==
    /\ r.method = "POST"
    /\ \/ endsWithSlash(r.url)
       \/ endsWithIndexHtml(r.url)
       \/ includesDocumentConverter(r.url)

\* self.addEventListener("fetch", ...): the listener up to its first await
OnFetch(r) ==
    /\ nFetches' = nFetches + 1
    /\ IF IsUpload(r)
       THEN /\ fetches' = Append(fetches, FetchOf(nFetches + 1, r, "formData", NotSent))
            /\ answered' = answered
       ELSE IF r.cache = "only-if-cached" /\ r.mode # "same-origin"
       THEN /\ fetches' = fetches
            /\ answered' = Answer(FetchOf(nFetches + 1, r, "listener", NotSent), Untouched)
       ELSE /\ fetches' = Append(fetches,
                  FetchOf(nFetches + 1, r, "network",
                          Sent(r.method, r.url,
                               IF coepCredentialless /\ r.mode = "no-cors"
                               THEN "omit" ELSE "same")))
            /\ answered' = answered
    /\ UNCHANGED <<coepCredentialless, pendingPostData, clientInbox, swMsgs, pageVars, coiVars>>

\* the handling of fetches[i] ends with `response`
Responds(i, response) ==
    /\ fetches' = RemoveAt(fetches, i)
    /\ answered' = Answer(fetches[i], response)

\* fetch(request).then(...).catch(...) settles
NetworkSettles(i) ==
    /\ fetches[i].stage = "network"
    /\ \/ Responds(i, FailedResponse)
       \/ \E response \in NetworkResponses :
             IF response.status = 0
             THEN Responds(i, Response("opaque", 0, {}, Undefined, Undefined, FALSE))
             ELSE Responds(i, Rewritten(response))
    /\ UNCHANGED <<coepCredentialless, pendingPostData, nFetches, clientInbox,
                   swMsgs, pageVars, coiVars>>

\* variant: staged data that was not fetched yet is kept
PostParsed_FirstWins(i) ==
    /\ fetches[i].stage = "formData"
    /\ LET request == fetches[i].request
           file == request.form.file IN
       \E thrown \in BOOLEAN :
          IF ~thrown /\ file.kind = "File"
          THEN /\ pendingPostData' =
                     IF pendingPostData.isNull
                     THEN PostData(request.form, fetches[i].id, request.client)
                     ELSE pendingPostData
               /\ fetches' = [fetches EXCEPT
                                ![i].stage = "page",
                                ![i].sent = Sent("GET", pathname(request.url), "same")]
               /\ answered' = answered
          ELSE /\ pendingPostData' = pendingPostData
               /\ Responds(i, Redirect(request.url))
    /\ UNCHANGED <<coepCredentialless, nFetches, clientInbox, swMsgs, pageVars, coiVars>>

\* handlePostRequest up to `await fetch(url.pathname)`: the form is parsed and
\* the file read, either of which may throw
PostParsed(i) ==
    /\ fetches[i].stage = "formData"
    /\ LET request == fetches[i].request
           file == request.form.file IN
       \E thrown \in BOOLEAN :
          IF ~thrown /\ file.kind = "File"
          THEN /\ pendingPostData' = PostData(request.form, fetches[i].id, request.client)
               /\ fetches' = [fetches EXCEPT
                                ![i].stage = "page",
                                ![i].sent = Sent("GET", pathname(request.url), "same")]
               /\ answered' = answered
          ELSE /\ pendingPostData' = pendingPostData
               /\ Responds(i, Redirect(request.url))
    /\ UNCHANGED <<coepCredentialless, nFetches, clientInbox, swMsgs, pageVars, coiVars>>

\* handlePostRequest from `await fetch(url.pathname)` on: the page is fetched
\* and its text read, either of which may throw
PageFetched(i) ==
    /\ fetches[i].stage = "page"
    /\ \/ Responds(i, Redirect(fetches[i].request.url))
       \/ \E pageResponse \in PageResponses : Responds(i, Page(pageResponse))
    /\ UNCHANGED <<coepCredentialless, pendingPostData, nFetches, clientInbox,
                   swMsgs, pageVars, coiVars>>

\* values of ev.data
NoMessageData == [type |-> "none", value |-> FALSE]
GetPostData == [type |-> "getPostData", value |-> FALSE]
MessageData ==
    { NoMessageData,
      [type |-> "deregister", value |-> FALSE],
      [type |-> "coepCredentialless", value |-> TRUE],
      [type |-> "coepCredentialless", value |-> FALSE],
      GetPostData }

\* the second page only asks for the staged data
MessagesOf(client) == IF client = "c1" THEN MessageData ELSE {GetPostData}

\* { type: "postData", data: data }; `pull` names the message event answered
PostDataMsg(client, data, pull) ==
    [client |-> client, type |-> "postData", data |-> data, pull |-> pull]

\* variant: the staged data stays in the slot after it was handed out
OnMessage_NoClear(client, data) ==
    /\ swMsgs' = swMsgs + 1
    /\ IF data.type = "coepCredentialless"
       THEN /\ coepCredentialless' = data.value
            /\ UNCHANGED <<pendingPostData, clientInbox>>
       ELSE IF data.type = "getPostData"
       THEN /\ clientInbox' = Append(clientInbox,
                    PostDataMsg(client, pendingPostData, swMsgs + 1))
            /\ UNCHANGED <<coepCredentialless, pendingPostData>>
       ELSE UNCHANGED <<coepCredentialless, pendingPostData, clientInbox>>
    /\ UNCHANGED <<fetches, nFetches, answered, pageVars, coiVars>>

\* self.addEventListener("message", ...). The 'deregister' branch asks the
\* browser to drop the registration and to reload the pages; it changes no
\* variable of the script.
OnMessage(client, data) ==
    /\ swMsgs' = swMsgs + 1
    /\ IF data = NoMessageData \/ data.type = "deregister"
       THEN UNCHANGED <<coepCredentialless, pendingPostData, clientInbox>>
       ELSE IF data.type = "coepCredentialless"
       THEN /\ coepCredentialless' = data.value
            /\ UNCHANGED <<pendingPostData, clientInbox>>
       ELSE IF data.type = "getPostData"
       THEN /\ clientInbox' = Append(clientInbox,
                    PostDataMsg(client, pendingPostData, swMsgs + 1))
            /\ pendingPostData' = Null
            /\ UNCHANGED coepCredentialless
       ELSE UNCHANGED <<coepCredentialless, pendingPostData, clientInbox>>
    /\ UNCHANGED <<fetches, nFetches, answered, pageVars, coiVars>>

----------------------------------------------------------------------------
(* coi-serviceworker.js: the part that runs in the page *)

\* sessionStorage.getItem("coiReloadedBySelf") of an item that is not set
NoItem == "null"

\* value of `coiPage`: `by` is what caused the load (bookkeeping of the
\* model), reloadedBySelf the item as the script read it,
\* crossOriginIsolated and serviceWorker what the page found in window and
\* navigator, `phase` where the script stopped, `listening` whether its
\* updatefound listener is attached, `reloading` whether
\* window.location.reload() was called
CoiPage(by, reloadedBySelf, crossOriginIsolated, serviceWorker, phase) ==
    [by |-> by, reloadedBySelf |-> reloadedBySelf,
     crossOriginIsolated |-> crossOriginIsolated, serviceWorker |-> serviceWorker,
     phase |-> phase, listening |-> FALSE, reloading |-> FALSE]

NoPage == CoiPage("none", NoItem, FALSE, FALSE, "none")

\* coi.shouldRegister(): () => !reloadedBySelf
shouldRegister(reloadedBySelf) == reloadedBySelf = NoItem

\* where the script of a page load stops: already isolated, told not to
\* register, no ServiceWorker API, or waiting for register() to settle
PhaseOf(reloadedBySelf, crossOriginIsolated, serviceWorker) ==
    IF crossOriginIsolated THEN "isolated"
    ELSE IF ~shouldRegister(reloadedBySelf) THEN "willNotRegister"
    ELSE IF ~serviceWorker THEN "noApi"
    ELSE "registering"

\* a page load runs the script: the item is read and removed, then the
\* script returns or calls register(). `by` is "self" for the reload asked
\* for by doReload and "user" for a navigation of the user.
LoadPage(by) ==
    /\ nLoads' = nLoads + 1
    /\ by = "self" <=> coiPage.reloading
    /\ coiReloadedBySelf' = NoItem
    /\ \E crossOriginIsolated, serviceWorker \in BOOLEAN :
          coiPage' = CoiPage(by, coiReloadedBySelf, crossOriginIsolated, serviceWorker,
                             PhaseOf(coiReloadedBySelf, crossOriginIsolated, serviceWorker))
    /\ UNCHANGED <<swVars, pageVars>>

\* variant: the page is reloaded without leaving the item
doReload_NoItem(page) ==
    /\ coiReloadedBySelf' = coiReloadedBySelf
    /\ coiPage' = [page EXCEPT !.reloading = TRUE]

\* coi.doReload(), called in `page`: setItem with coepDegrading ?
\* "coepDegrade" : "true", then window.location.reload()
doReload(page) ==
    /\ coiReloadedBySelf' =
          IF page.reloadedBySelf = "coepDegrade" THEN "coepDegrade" ELSE "true"
    /\ coiPage' = [page EXCEPT !.reloading = TRUE]

\* n.serviceWorker.register(...) settles: on success the updatefound
\* listener is attached and the page reloads if the worker is active and
\* does not control it; on failure the error is logged
RegisterSettles ==
    /\ coiPage.phase = "registering"
    /\ \E registered, activeWithoutController \in BOOLEAN :
          IF ~registered
          THEN /\ coiPage' = [coiPage EXCEPT !.phase = "failed"]
               /\ coiReloadedBySelf' = coiReloadedBySelf
          ELSE LET listening == [coiPage EXCEPT !.phase = "registered",
                                                !.listening = TRUE] IN
               IF activeWithoutController
               THEN doReload(listening)
               ELSE /\ coiPage' = listening
                    /\ coiReloadedBySelf' = coiReloadedBySelf
    /\ UNCHANGED <<nLoads, swVars, pageVars>>

\* the registration's 'updatefound' event reaches the listener of the page
UpdateFound ==
    /\ coiPage.listening
    /\ doReload(coiPage)
    /\ UNCHANGED <<nLoads, swVars, pageVars>>

----------------------------------------------------------------------------
(* Specifications *)

\* a tab that has not loaded the page yet
CoiInit ==
    /\ coiReloadedBySelf = NoItem
    /\ coiPage = NoPage
    /\ nLoads = 0

\* the service worker after its script ran
SwInit ==
    /\ coepCredentialless = FALSE
    /\ pendingPostData = Null
    /\ fetches = << >>
    /\ nFetches = 0
    /\ answered = NoFetch
    /\ clientInbox = << >>
    /\ swMsgs = 0
    /\ CoiInit

\* the page after its scripts ran, loaded with `param` as ?origins=
InitWith(param) ==
    /\ allowedOriginsParam = param
    /\ allowedOrigins = ParseAllowedOrigins(param)
    /\ embedded \in BOOLEAN
    /\ initState = "idle"
    /\ zHM = FALSE
    /\ thrPort = FALSE
    /\ onmessage = FALSE
    /\ pendingSetups = 0
    /\ moduleReady = FALSE
    /\ pendingRequests = << >>
    /\ FS = << >>
    /\ toWorker = << >>
    /\ fromWorker = << >>
    /\ worker = [state |-> "absent", cmd |-> NoCmd, doc |-> <<>>]
    /\ outbox = << >>
    /\ calls = << >>
    /\ last = Ran("none", "load", Undefined)
    /\ SwInit

Init == \E param \in OriginsParams : InitWith(param)

\* everything that runs without a window message: start-up, the worker
\* thread, the delivery of its replies
Background ==
    \/ InitFails
    \/ InitStarts
    \/ ThrPortCreated
    \/ SetupAttempt
    \/ WorkerScriptStarts
    \/ DeliverWorkerMessage
    \/ WorkerLoad
    \/ WorkerStore

WindowMessage ==
    /\ nCalls < MaxMsgs
    /\ \E event \in MessageEvents : OnWindowMessage(event)

Next == Background \/ WindowMessage

Spec == Init /\ [][Next]_vars

\* the same program with a worker channel that may also deliver stray replies
WindowMessageStray ==
    /\ nCalls < MaxStrayMsgs
    /\ \E event \in MessageEvents : OnWindowMessage(event)

NextStray == Background \/ WindowMessageStray \/ StrayWorkerReply

SpecStray == Init /\ [][NextStray]_vars

\* the same program with a worker channel that may deliver out of order
NextReorder == Next \/ DeliverOutOfOrder

SpecReorder == Init /\ [][NextReorder]_vars

\* the same program with one window that converts again and again, under
\* either request id: the runs in which conversions fail and others follow
FaultEvents ==
    { [data |-> ConvertMessage(RawBuffer, NoPayload, "docx", r),
       origin |-> OriginA, source |-> "w1"] : r \in RequestIds }

WindowMessageFault ==
    /\ nCalls < MaxFaultMsgs
    /\ \E event \in FaultEvents : OnWindowMessage(event)

NextFault == Background \/ WindowMessageFault

SpecFault == Init /\ [][NextFault]_vars

\* the same program with callers that serialise: a convert message is sent
\* only while the ledger is empty
WindowMessageSerial ==
    /\ nCalls < MaxMsgs
    /\ \E event \in MessageEvents :
          /\ event.data.type = "convert" => pendingRequests = << >>
          /\ OnWindowMessage(event)

NextSerial == Background \/ WindowMessageSerial

SpecSerial == Init /\ [][NextSerial]_vars

\* the service worker beside a page that has not started: fetch events and
\* message events, and the steps at which its promises settle
InitSW ==
    /\ InitWith(NoParam)
    /\ embedded = FALSE

FetchEvent ==
    /\ nFetches + swMsgs < MaxSwEvents
    /\ \E r \in Requests : OnFetch(r)

MessageEvent ==
    /\ nFetches + swMsgs < MaxSwEvents
    /\ \E client \in Clients : \E data \in MessagesOf(client) : OnMessage(client, data)

NextSW ==
    \/ FetchEvent
    \/ MessageEvent
    \/ \E i \in DOMAIN fetches : NetworkSettles(i)
    \/ \E i \in DOMAIN fetches : PostParsed(i)
    \/ \E i \in DOMAIN fetches : PageFetched(i)

SpecSW == InitSW /\ [][NextSW]_vars

\* the same program loaded with any of the values of ?origins=
InitOrigins == \E param \in OriginsParamsWide : InitWith(param)

NextOrigins == Background \/ WindowMessageStray

SpecOrigins == InitOrigins /\ [][NextOrigins]_vars

\* the first listing: the handshake with script injection
NextInject ==
    \/ InitFails
    \/ InitStartsInject
    \/ ThrPortCreated
    \/ SetupAttempt
    \/ ThreadStarted
    \/ DeliverInject
    \/ WorkerRunsScript
    \/ WorkerLoad
    \/ WorkerStore
    \/ WindowMessageStray

SpecInject == Init /\ [][NextInject]_vars

\* the client part of coi-serviceworker.js in one tab: page loads, by the
\* user or by the script's own reload, and the events of the registration
PageLoad ==
    /\ nLoads < MaxLoads
    /\ \E by \in {"user", "self"} : LoadPage(by)

NextCoi == PageLoad \/ RegisterSettles \/ UpdateFound

SpecCoi == InitSW /\ [][NextCoi]_vars

----------------------------------------------------------------------------
(* What the claims speak of, stated apart from the code above *)

\* the target a reply to a message from `origin` must carry
ExpectedTarget(origin) == IF origin \in {NullOrigin, NoOrigin} THEN Wildcard ELSE origin

\* a whitelist is configured and does not admit `origin`
GateRejects(origin) ==
    /\ ~allowedOrigins.isNull
    /\ origin # NullOrigin
    /\ origin \notin allowedOrigins.list

\* the payload the listener looks at: data.buffer || data.file
SuppliedPayload(data) == IF data.buffer.kind # "missing" THEN data.buffer ELSE data.file

Terminal(m) == m.type \in {"result", "error"}

\* positions in the outbox of the terminal messages that answer call c
TerminalsOf(c) == { i \in DOMAIN outbox : outbox[i].call = c /\ Terminal(outbox[i]) }

\* the step is a run of the window message listener
ListenerRan == nCalls' = nCalls + 1

\* everything but the history variables
programVars == <<cfgVars, initVars, moduleReady, pendingRequests, FS, toWorker,
                 fromWorker, worker, outbox>>

----------------------------------------------------------------------------
(* C1 *)

\* C1: no request is resolved twice. For every inbound convert call, and so for
\* every ledger entry one call created, at most one terminal message (result
\* or error) is ever posted, whatever replies the worker channel delivers:
\* repeated, late or unknown ones included.
C1_AtMostOneTerminal ==
    \A c \in 1..nCalls : Cardinality(TerminalsOf(c)) <= 1

\* a reply carrying the id of a request already answered with a result has
\* just been ignored
C1_Witness ==
    /\ last.handler = "worker" /\ last.branch = "stale"
    /\ \E i \in DOMAIN outbox :
          outbox[i].type = "result" /\ outbox[i].requestId = last.requestId

----------------------------------------------------------------------------
(* C2 *)

\* nothing is in flight between the coordinator and the worker thread
Quiescent == toWorker = << >> /\ fromWorker = << >> /\ worker.state # "loaded"

\* C2: every accepted convert call gets exactly one terminal message, posted
\* to the window that made the call, and its ledger entry is gone afterwards.
\* The worker answers every command and every answer is handled, so the
\* eventual delivery is stated at the states in which nothing is in flight.
C2_EveryCallAnswered ==
    Quiescent =>
        \A c \in 1..nCalls :
            calls[c].branch = "accepted" =>
                /\ Cardinality(TerminalsOf(c)) = 1
                /\ \A i \in TerminalsOf(c) : outbox[i].source = calls[c].source
                /\ \A r \in DOMAIN pendingRequests : pendingRequests[r].call # c

----------------------------------------------------------------------------
(* C3 *)

\* the fields of a ledger entry that the code stores
Stored(entry) ==
    [source |-> entry.source, targetOrigin |-> entry.targetOrigin, format |-> entry.format]

\* C3: registration never changes an entry that is present: the first
\* registration wins, and an entry keeps its source, targetOrigin and format
\* from insertion to removal.
C3_FirstRegistrationWins ==
    [][ \A r \in DOMAIN pendingRequests \cap DOMAIN pendingRequests' :
            Stored(pendingRequests'[r]) = Stored(pendingRequests[r]) ]_vars

----------------------------------------------------------------------------
(* C4 *)

\* the messages the worker channel can deliver next
Deliverable ==
    StrayReplies \cup (IF fromWorker = << >> THEN {} ELSE {Head(fromWorker)})

\* C4: handling a converted or error reply whose requestId is not in the
\* ledger posts nothing and changes neither the ledger, the filesystem, the
\* command queue nor readiness.
C4_StaleReplyIsNoOp ==
    [][ \A d \in Deliverable :
          ( /\ handleWorkerMessage(d)
            /\ d.cmd \in {"converted", "error"}
            /\ d.requestId \notin DOMAIN pendingRequests )
              => UNCHANGED <<cfgVars, initVars, moduleReady, pendingRequests, FS,
                             toWorker, worker, outbox>> ]_vars

\* a reply has just been ignored although no request was ever registered
C4_Witness ==
    /\ last.handler = "worker" /\ last.branch = "stale"
    /\ last.requestId \in RequestIds
    /\ \A c \in 1..nCalls : calls[c].branch # "accepted"
    /\ moduleReady

----------------------------------------------------------------------------
(* C5 *)

\* C5: every result, error and pong that answers an inbound message is posted
\* with the origin of that message as its target, or with the wildcard when
\* that origin is 'null' or absent.
C5_RepliesTargetRequestOrigin ==
    \A i \in DOMAIN outbox :
        (outbox[i].type \in {"result", "error", "pong"} /\ outbox[i].call >= 1)
            => outbox[i].targetOrigin = ExpectedTarget(calls[outbox[i].call].origin)

\* a conversion requested from https://b has been answered with a result
C5_Witness ==
    \E i \in DOMAIN outbox :
        /\ outbox[i].type = "result"
        /\ outbox[i].call >= 1
        /\ calls[outbox[i].call].origin = OriginB
        /\ outbox[i].targetOrigin = OriginB

----------------------------------------------------------------------------
(* C6 *)

\* C6: with a whitelist configured, a message (convert or ping) from an origin
\* the gate rejects is dropped: no reply is posted and nothing changes, neither
\* the pending requests, the filesystem, the worker channel nor readiness.
C6_RejectedOriginDropped ==
    [][ ListenerRan =>
            \A event \in MessageEvents :
                (GateRejects(event.origin) /\ OnWindowMessage(event))
                    => UNCHANGED programVars ]_vars

\* a message from a rejected origin has just been dropped
C6_Witness ==
    /\ nCalls >= 1
    /\ calls[nCalls].branch = "dropped"
    /\ ~allowedOrigins.isNull
    /\ calls[nCalls].origin = OriginB
    /\ outbox = << >>

----------------------------------------------------------------------------
(* C7 *)

\* C7: isOriginAllowed(origin) holds exactly when no whitelist is configured,
\* or origin is the string 'null', or origin is a member of the whitelist;
\* with the whitelist [https://a], https://a and 'null' pass and https://b
\* does not.
C7_GateDecision ==
    /\ \A origin \in Origins :
          isOriginAllowed(origin) <=>
              \/ allowedOrigins.isNull
              \/ origin = NullOrigin
              \/ origin \in allowedOrigins.list
    /\ allowedOrigins = ParseAllowedOrigins(<<OriginA>>) =>
          /\ isOriginAllowed(OriginA)
          /\ isOriginAllowed(NullOrigin)
          /\ ~isOriginAllowed(OriginB)

\* under the whitelist [https://a], a message from 'null' was answered and a
\* message from https://b has just been dropped
C7_Witness ==
    /\ allowedOrigins = ParseAllowedOrigins(<<OriginA>>)
    /\ nCalls = 2
    /\ calls[1].origin = NullOrigin /\ calls[1].branch # "dropped"
    /\ calls[2].origin = OriginB /\ calls[2].branch = "dropped"

----------------------------------------------------------------------------
(* C8 *)

\* C8: for the origin of every message handled, getTargetOrigin returns the
\* wildcard when the origin is 'null' or empty and the origin itself otherwise.
C8_TargetOrigin ==
    \A c \in 1..nCalls :
        getTargetOrigin(calls[c].origin) =
            IF calls[c].origin = NullOrigin \/ calls[c].origin = NoOrigin
            THEN Wildcard
            ELSE calls[c].origin

\* a message without origin was answered at the wildcard, one from https://a
\* at https://a
C8_Witness ==
    /\ nCalls = 2
    /\ calls[1].origin = NoOrigin /\ calls[2].origin = OriginA
    /\ Len(outbox) >= 2
    /\ \E i, j \in DOMAIN outbox :
          /\ outbox[i].call = 1 /\ outbox[i].targetOrigin = Wildcard
          /\ outbox[j].call = 2 /\ outbox[j].targetOrigin = OriginA

----------------------------------------------------------------------------
(* C9 *)

\* a convert message from an origin the gate admits
AdmittedConvert(event) ==
    /\ event.data.type = "convert"
    /\ ~GateRejects(event.origin)

\* the one error the listener posts for `event`, with text `error`
RejectedWith(event, error) ==
    /\ outbox' = Append(outbox,
            ErrorMsg(event.source, ExpectedTarget(event.origin), error,
                     event.data.requestId, nCalls + 1))
    /\ UNCHANGED <<pendingRequests, FS, toWorker>>

\* no ledger entry stems from a call that arrived before Ready
NoEntryFromEarlyCall ==
    \A r \in DOMAIN pendingRequests' : calls'[pendingRequests'[r].call].ready

\* C9 as stated: every convert request received while isReady() is false gets
\* exactly one error with its requestId and the not-initialized text, and
\* leaves no ledger entry, staged file or worker command, then or later.
C9_Original ==
    [][ /\ (ListenerRan /\ ~moduleReady) =>
              \A event \in MessageEvents :
                  (AdmittedConvert(event) /\ OnWindowMessage(event))
                      => RejectedWith(event, NotInitialized)
        /\ NoEntryFromEarlyCall ]_vars

\* C9, amended: the same for every such request whose payload is a buffer, a
\* typed view or an object wrapping a buffer; a request with a missing or
\* malformed payload gets the payload error instead.
C9_NotReadyRejected ==
    [][ /\ (ListenerRan /\ ~moduleReady) =>
              \A event \in MessageEvents :
                  ( /\ AdmittedConvert(event)
                    /\ SuppliedPayload(event.data).kind \in {"ArrayBuffer", "view", "wrapper"}
                    /\ OnWindowMessage(event) )
                      => RejectedWith(event, NotInitialized)
        /\ NoEntryFromEarlyCall ]_vars

\* Ready has been reached after a well-formed convert request was rejected as
\* not initialized, and nothing of that request is left
C9_Witness ==
    /\ moduleReady
    /\ nCalls >= 1
    /\ calls[1].type = "convert" /\ calls[1].branch = "notInitialized"
    /\ \E i \in DOMAIN outbox :
          /\ outbox[i].call = 1 /\ outbox[i].type = "error"
          /\ outbox[i].error = NotInitialized
          /\ outbox[i].requestId = calls[1].requestId
    /\ pendingRequests = << >> /\ FS = << >> /\ toWorker = << >>

----------------------------------------------------------------------------
(* C10 *)

\* one error goes to the requester and the conversion state is untouched
FailsBeforeRegistration(event) ==
    \E error \in {NoBuffer, InvalidBuffer, NotInitialized} : RejectedWith(event, error)

\* C10 as stated: a convert request whose payload is missing or is neither a
\* raw buffer nor a typed view fails with an error to the requester, and the
\* ledger, the staging area and the worker channel stay as they were.
C10_Original ==
    [][ ListenerRan =>
            \A event \in MessageEvents :
                ( /\ AdmittedConvert(event)
                  /\ SuppliedPayload(event.data).kind \notin {"ArrayBuffer", "view"}
                  /\ OnWindowMessage(event) )
                    => FailsBeforeRegistration(event) ]_vars

\* C10, amended: the same for a payload that is missing or is neither a raw
\* buffer, nor a typed view, nor an object whose buffer property is a raw
\* buffer (such an object is accepted like a typed view).
C10_InvalidPayloadRejected ==
    [][ ListenerRan =>
            \A event \in MessageEvents :
                ( /\ AdmittedConvert(event)
                  /\ SuppliedPayload(event.data).kind \notin {"ArrayBuffer", "view", "wrapper"}
                  /\ OnWindowMessage(event) )
                    => FailsBeforeRegistration(event) ]_vars

\* after Ready, a convert request with a malformed payload has just been
\* answered with the invalid-buffer error, with nothing registered or staged
C10_Witness ==
    /\ moduleReady
    /\ nCalls >= 1
    /\ calls[nCalls].branch = "invalid"
    /\ Len(outbox) >= 1
    /\ outbox[Len(outbox)].call = nCalls
    /\ outbox[Len(outbox)].error = InvalidBuffer
    /\ pendingRequests = << >> /\ FS = << >> /\ toWorker = << >>

----------------------------------------------------------------------------
(* C11 *)

\* the bytes a payload supplies: all of a raw buffer, the window
\* [byteOffset, byteOffset + byteLength) of a typed view's buffer
PayloadBytes(p) ==
    IF p.kind = "view"
    THEN SubSeq(p.buffer, p.byteOffset + 1, p.byteOffset + p.byteLength)
    ELSE p.buffer

\* the listener accepted `event`, a convert with a payload of one of `kinds`
AcceptedWith(event, kinds) ==
    /\ AdmittedConvert(event)
    /\ SuppliedPayload(event.data).kind \in kinds
    /\ OnWindowMessage(event)
    /\ calls'[nCalls'].branch = "accepted"

\* C11: when a convert request with a raw buffer or a typed view is accepted,
\* the bytes staged at the input path are exactly the bytes of the payload:
\* for a typed view, the bytes the view covers.
C11_StagedBytesArePayload ==
    [][ ListenerRan =>
            \A event \in MessageEvents :
                AcceptedWith(event, {"ArrayBuffer", "view"})
                    => /\ inputPath \in DOMAIN FS'
                       /\ FS'[inputPath] = PayloadBytes(SuppliedPayload(event.data)) ]_vars

----------------------------------------------------------------------------
(* C12 *)

\* the 'ready' message has been posted to the parent
ReadySent == \E i \in DOMAIN outbox : outbox[i].type = "ready"

\* C12: in every state in which 'ready' has been posted to the parent,
\* isReady() is true, and no message posted after 'ready' is a
\* not-initialized error: a convert request received after 'ready' is never
\* rejected as not initialized.
C12_ReadyMeansReady ==
    /\ ReadySent => moduleReady
    /\ \A i, j \in DOMAIN outbox :
          (i < j /\ outbox[i].type = "ready" /\ outbox[j].type = "error")
              => outbox[j].error # NotInitialized
    /\ \A c \in 1..nCalls :
          calls[c].branch = "notInitialized" => ~calls[c].ready

\* 'ready' was posted, and a convert request received afterwards has been
\* accepted and answered with a result
C12_Witness ==
    \E i, j \in DOMAIN outbox :
        /\ i < j
        /\ outbox[i].type = "ready"
        /\ outbox[j].type = "result"
        /\ calls[outbox[j].call].ready

----------------------------------------------------------------------------
(* C13 *)

\* the step posts the script-injection directive to the worker
DirectiveSent ==
    /\ Len(toWorker') = Len(toWorker) + 1
    /\ toWorker'[Len(toWorker')] = RunThrScript

\* C13: every step that sends the script-injection directive is the handling
\* of the worker's thread-started signal: the signal is the message being
\* taken off the channel in that step, so the directive is never sent before
\* the signal was observed, and for no other reason.
C13_InjectOnThreadStartedOnly ==
    [][ DirectiveSent =>
            /\ fromWorker # << >>
            /\ Head(fromWorker) = ThrStarted
            /\ fromWorker' = Tail(fromWorker) ]_vars

\* the directive has just been sent to the waiting worker thread
C13_Witness ==
    /\ last.branch = "injected"
    /\ toWorker = <<RunThrScript>>
    /\ worker.state = "started"
    /\ fromWorker = << >>

----------------------------------------------------------------------------
(* C14 *)

\* positions in the outbox of the initialisation errors reported to the parent
InitErrors ==
    { i \in DOMAIN outbox :
        /\ outbox[i].type = "error"
        /\ outbox[i].source = Parent
        /\ outbox[i].call = 0 }

\* C14: when the construction of the engine fails, exactly one initialisation
\* error is reported to the parent if the page is embedded (none otherwise),
\* isReady() is false, and nothing is tried again: no engine, no port, no
\* handler, no worker, and the failed state is never left. Without a failure
\* no initialisation error is reported.
C14_InitFailureReportedOnce ==
    /\ [](/\ Cardinality(InitErrors) <= 1
          /\ initState # "failed" => InitErrors = {}
          /\ initState = "failed" =>
                /\ Cardinality(InitErrors) = (IF embedded THEN 1 ELSE 0)
                /\ ~moduleReady /\ ~ReadySent
                /\ ~zHM /\ ~thrPort /\ ~onmessage /\ pendingSetups = 0
                /\ worker.state = "absent"
                /\ \A c \in 1..nCalls : calls[c].branch # "accepted")
    /\ [][initState = "failed" => initState' = "failed"]_vars

\* the initialisation failed on an embedded page, the parent was told once,
\* and a later convert request was rejected as not initialized
C14_Witness ==
    /\ initState = "failed"
    /\ embedded
    /\ Len(outbox) = 2
    /\ InitErrors = {1}
    /\ outbox[1].error = ImportFailed
    /\ outbox[2].type = "error" /\ outbox[2].error = NotInitialized

----------------------------------------------------------------------------
(* C15 *)

\* C15: a ping from an origin the gate admits is answered in the same
\* listener run with exactly one pong that carries the readiness of that
\* moment (false before Ready, true after) and the ping's requestId; the
\* ledger, the staging area, the command queue and readiness are unchanged.
C15_PingAnsweredWithReadiness ==
    [][ ListenerRan =>
            \A event \in MessageEvents :
                ( /\ event.data.type = "ping"
                  /\ ~GateRejects(event.origin)
                  /\ OnWindowMessage(event) )
                    => /\ outbox' = Append(outbox,
                              PongMsg(event.source, ExpectedTarget(event.origin),
                                      moduleReady, event.data.requestId, nCalls + 1))
                       /\ UNCHANGED <<pendingRequests, FS, toWorker, moduleReady>> ]_vars

\* a ping after Ready, while a conversion was pending, has just been answered
\* {ready: true}
C15_Witness ==
    /\ moduleReady
    /\ Len(outbox) >= 1
    /\ outbox[Len(outbox)].type = "pong"
    /\ outbox[Len(outbox)].ready
    /\ outbox[Len(outbox)].call = nCalls
    /\ pendingRequests # << >>

----------------------------------------------------------------------------
(* C16 *)

\* the step changes the filesystem at the staging path of the input only
StagedOnce ==
    /\ DOMAIN FS' = DOMAIN FS \cup {inputPath}
    /\ \A path \in DOMAIN FS \ {inputPath} : FS'[path] = FS[path]

\* the step sets the ledger entry of requestId and no other
RegisteredOnce(requestId) ==
    /\ DOMAIN pendingRequests' = DOMAIN pendingRequests \cup {requestId}
    /\ pendingRequests'[requestId].call = nCalls + 1
    /\ \A r \in DOMAIN pendingRequests \ {requestId} :
          pendingRequests'[r] = pendingRequests[r]

\* the step posts one convert command for requestId, after those in the queue
CommandedOnce(requestId) ==
    /\ Len(toWorker') = Len(toWorker) + 1
    /\ SubSeq(toWorker', 1, Len(toWorker)) = toWorker
    /\ toWorker'[Len(toWorker')].cmd = "convert"
    /\ toWorker'[Len(toWorker')].requestId = requestId
    /\ toWorker'[Len(toWorker')].from = inputPath

----------------------------------------------------------------------------
(* C17 *)

\* the calls that posted a convert command for the caller-supplied id r
CommandsSent(r) ==
    { c \in 1..nCalls :
        /\ calls[c].requestId = r
        /\ \E k \in DOMAIN calls[c].effects : calls[c].effects[k] = "postMessage" }

\* C17 as stated: for each requestId at most one convert command is ever sent
\* to the worker.
C17_Original ==
    \A r \in RequestIds : Cardinality(CommandsSent(r)) <= 1

\* C17, amended: a convert command is posted only by the listener run that
\* accepts a convert call, one command for that call; no other step (a worker
\* reply of either kind, a timer, the start-up) ever adds a command, so no
\* command is re-sent or retried, whatever the outcome.
C17_OneCommandPerAcceptedCall ==
    [][ Len(toWorker') > Len(toWorker) =>
            /\ ListenerRan
            /\ calls'[nCalls'].branch = "accepted"
            /\ Len(toWorker') = Len(toWorker) + 1
            /\ SubSeq(toWorker', 1, Len(toWorker)) = toWorker
            /\ toWorker'[Len(toWorker')].cmd = "convert" ]_vars

\* a conversion has failed in the worker, its error was passed on, and
\* nothing was sent to the worker again
C17_Witness ==
    /\ last.handler = "worker" /\ last.branch = "error"
    /\ toWorker = << >>
    /\ pendingRequests = << >>
    /\ worker.state = "idle"
    /\ Len(outbox) >= 1
    /\ outbox[Len(outbox)].type = "error"
    /\ outbox[Len(outbox)].requestId = last.requestId

----------------------------------------------------------------------------
(* C18 *)

\* the replies waiting in the worker channel, any of which may come next
InChannel == { fromWorker[i] : i \in DOMAIN fromWorker }

\* the step takes a message off the worker channel
ReplyTaken == Len(fromWorker') = Len(fromWorker) - 1

\* the step posts exactly one message: a terminal one for the entry
\* registered under requestId, to that entry's source and target origin
ResolvedTo(requestId) ==
    /\ Len(outbox') = Len(outbox) + 1
    /\ SubSeq(outbox', 1, Len(outbox)) = outbox
    /\ LET m == outbox'[Len(outbox')] IN
       /\ Terminal(m)
       /\ m.requestId = requestId
       /\ m.source = pendingRequests[requestId].source
       /\ m.targetOrigin = pendingRequests[requestId].targetOrigin
       /\ m.call = pendingRequests[requestId].call
    /\ DOMAIN pendingRequests' = DOMAIN pendingRequests \ {requestId}
    /\ \A r \in DOMAIN pendingRequests' : pendingRequests'[r] = pendingRequests[r]

\* C18: whichever reply of the channel is handled next, a converted or error
\* reply for a registered requestId is answered to the source registered
\* under that requestId, with that requestId, and leaves the other entries
\* alone; so every terminal message a requester gets carries the requestId of
\* a call of that requester.
C18_MatchedByRequestId ==
    /\ [][ ReplyTaken =>
              \A d \in InChannel :
                  ( /\ d.cmd \in {"converted", "error"}
                    /\ d.requestId \in DOMAIN pendingRequests
                    /\ handleWorkerMessage(d) )
                      => ResolvedTo(d.requestId) ]_vars
    /\ [](\A i \in DOMAIN outbox :
              (Terminal(outbox[i]) /\ outbox[i].call >= 1) =>
                  /\ outbox[i].source = calls[outbox[i].call].source
                  /\ calls[outbox[i].call].requestId # Undefined
                        => outbox[i].requestId = calls[outbox[i].call].requestId)

\* two requests with distinct ids from two windows were outstanding, and the
\* reply to the second was handled before the reply to the first: each
\* window got the result with its own id
C18_Witness ==
    \E i, j \in DOMAIN outbox :
        /\ i < j
        /\ outbox[i].type = "result" /\ outbox[i].call = 2
        /\ outbox[j].type = "result" /\ outbox[j].call = 1
        /\ outbox[i].source # outbox[j].source
        /\ outbox[i].requestId # outbox[j].requestId

----------------------------------------------------------------------------
(* C19 *)

\* C19: the coordinator does not serialise conversions. After Ready every
\* admitted convert request with a well-formed payload is accepted, whatever
\* is outstanding, and its bytes replace whatever is staged at the fixed
\* input path, read or not.
C19_NotSerialised ==
    [][ (ListenerRan /\ moduleReady) =>
            \A event \in MessageEvents :
                ( /\ AdmittedConvert(event)
                  /\ SuppliedPayload(event.data).kind \in {"ArrayBuffer", "view", "wrapper"}
                  /\ OnWindowMessage(event) )
                    => /\ calls'[nCalls'].branch = "accepted"
                       /\ inputPath \in DOMAIN FS'
                       /\ FS'[inputPath] = SuppliedPayload(event.data).buffer ]_vars

\* the clobbering the claim speaks of: the first request, from the second
\* window with the bytes <<1>>, was answered with a result converted from the
\* bytes of the later request of the first window
C19_Witness ==
    /\ nCalls = 2
    /\ calls[1].source = "w2" /\ calls[1].branch = "accepted"
    /\ calls[2].source = "w1" /\ calls[2].branch = "accepted"
    /\ \E i \in DOMAIN outbox :
          /\ outbox[i].type = "result"
          /\ outbox[i].call = 1
          /\ outbox[i].source = "w2"
          /\ outbox[i].blob.data.src # RawBuffer.buffer

----------------------------------------------------------------------------
(* C20 *)

\* the step posts exactly one message, of type `type`, for the entry of
\* requestId, carrying requestId, and removes that entry
AnsweredWith(type, requestId) ==
    /\ Len(outbox') = Len(outbox) + 1
    /\ SubSeq(outbox', 1, Len(outbox)) = outbox
    /\ outbox'[Len(outbox')].type = type
    /\ outbox'[Len(outbox')].requestId = requestId
    /\ outbox'[Len(outbox')].source = pendingRequests[requestId].source
    /\ requestId \notin DOMAIN pendingRequests'

\* the worker's next message is a converted reply for a registered requestId
\* and the step handles it
ConvertedHandled(d) ==
    /\ d.cmd = "converted"
    /\ d.requestId \in DOMAIN pendingRequests
    /\ handleWorkerMessage(d)

\* C20 as stated: handling a converted reply for a registered requestId reads
\* the output, deletes the staged input and the staged output, posts exactly
\* one result with the reply's format and requestId to the registered source,
\* and removes the entry.
C20_Original ==
    [][ ReplyTaken =>
            \A d \in {Head(fromWorker)} :
                ConvertedHandled(d) =>
                    /\ d.to \in DOMAIN FS
                    /\ AnsweredWith("result", d.requestId)
                    /\ outbox'[Len(outbox')].format = d.format
                    /\ outbox'[Len(outbox')].blob.data = FS[d.to]
                    /\ d.from \notin DOMAIN FS'
                    /\ d.to \notin DOMAIN FS' ]_vars

\* C20, amended: if the output can be read, exactly one result with the
\* output's bytes, the reply's format and requestId goes to the registered
\* source, the staged input is gone, and the staged output is deleted if the
\* input was still there to delete (otherwise the output stays); if the
\* output cannot be read, exactly one error goes to the source and no file is
\* touched. Either way the entry is removed.
C20_ConvertedReplyHandled ==
    [][ ReplyTaken =>
            \A d \in {Head(fromWorker)} :
                ConvertedHandled(d) =>
                    IF d.to \in DOMAIN FS
                    THEN /\ AnsweredWith("result", d.requestId)
                         /\ outbox'[Len(outbox')].format = d.format
                         /\ outbox'[Len(outbox')].blob.data = FS[d.to]
                         /\ d.from \notin DOMAIN FS'
                         /\ IF d.from \in DOMAIN FS
                            THEN d.to \notin DOMAIN FS'
                            ELSE FS' = FS
                    ELSE /\ AnsweredWith("error", d.requestId)
                         /\ FS' = FS ]_vars

\* a converted reply has just been answered with a result, both staged files
\* are gone and the ledger is empty
C20_Witness ==
    /\ last.handler = "worker" /\ last.branch = "result"
    /\ Len(outbox) >= 1
    /\ outbox[Len(outbox)].type = "result"
    /\ outbox[Len(outbox)].requestId = last.requestId
    /\ FS = << >>
    /\ pendingRequests = << >>

----------------------------------------------------------------------------
(* C21 *)

\* the format resolves to a known output extension in convertDocument
ResolvesToKnownExtension(format) == formatExtensions(toLowerCase(format)) # Undefined

\* C21: every result carries a blob whose type is the MIME type of its format
\* whenever convertDocument resolves that format to a known output extension,
\* and the generic binary type only when the format is not recognised.
C21_BlobTypeOfFormat ==
    \A i \in DOMAIN outbox :
        outbox[i].type = "result" =>
            /\ ResolvesToKnownExtension(outbox[i].format) =>
                  outbox[i].blob.type = mimeTypes(toLowerCase(outbox[i].format))
            /\ outbox[i].blob.type = "application/octet-stream" =>
                  ~ResolvesToKnownExtension(outbox[i].format)

----------------------------------------------------------------------------
(* C22 *)

\* C22: handling a worker error reply for a registered requestId posts exactly
\* one message: an error to the registered source and target origin, whose
\* text is the worker's text unchanged and whose requestId is the reply's;
\* the ledger entry is removed, the others stay, and neither the filesystem
\* nor the command queue changes.
C22_WorkerErrorForwarded ==
    [][ ReplyTaken =>
            \A d \in {Head(fromWorker)} :
                ( /\ d.cmd = "error"
                  /\ d.requestId \in DOMAIN pendingRequests
                  /\ handleWorkerMessage(d) )
                    => /\ ResolvedTo(d.requestId)
                       /\ outbox'[Len(outbox')].type = "error"
                       /\ outbox'[Len(outbox')].error = d.error
                       /\ UNCHANGED <<FS, toWorker>> ]_vars

\* the worker could not load the input of a registered request, and its
\* message has just been passed on to the requester
C22_Witness ==
    /\ last.handler = "worker" /\ last.branch = "error"
    /\ Len(outbox) >= 1
    /\ outbox[Len(outbox)].type = "error"
    /\ outbox[Len(outbox)].error = LoadFailed
    /\ outbox[Len(outbox)].requestId = last.requestId
    /\ last.requestId \notin DOMAIN pendingRequests

----------------------------------------------------------------------------
(* C23 *)

\* the error texts of an engine failure: the worker's own, and the failure to
\* read the output
EngineFailures == {LoadFailed, EngineFault, ReadFailed}

\* an engine failure has been reported to a requester
FailureReported ==
    \E i \in DOMAIN outbox :
        outbox[i].type = "error" /\ outbox[i].error \in EngineFailures

\* C23: an engine failure is not fatal. In every state in which a worker
\* error or a failure to read the output has been reported, isReady() is
\* true; every convert request with a well-formed payload handled after such
\* a report is accepted, registered and sent to the worker; and readiness,
\* once true, never becomes false again.
C23_EngineFailureNotFatal ==
    /\ [](FailureReported => moduleReady /\ zHM)
    /\ [][moduleReady => moduleReady']_vars
    /\ [][ (ListenerRan /\ FailureReported) =>
              \A event \in FaultEvents :
                  OnWindowMessage(event) =>
                      /\ calls'[nCalls'].branch = "accepted"
                      /\ RegisteredOnce(event.data.requestId)
                      /\ CommandedOnce(event.data.requestId)
                      /\ outbox' = outbox ]_vars

\* the output of the second request could not be read and its requester was
\* told; a third request, under the id of the failed one, has been accepted
\* since: it is registered and its command is on the way to the worker
C23_Witness ==
    /\ moduleReady
    /\ nCalls = 3
    /\ calls[3].branch = "accepted"
    /\ \E i \in DOMAIN outbox :
          /\ outbox[i].type = "error" /\ outbox[i].error = ReadFailed
          /\ outbox[i].call = 2
          /\ outbox[i].requestId = calls[3].requestId
    /\ calls[3].requestId \in DOMAIN pendingRequests
    /\ pendingRequests[calls[3].requestId].call = 3
    /\ toWorker # << >>
    /\ toWorker[Len(toWorker)].requestId = calls[3].requestId

----------------------------------------------------------------------------
(* C24 *)

\* the step is a run of the service worker's message listener
SwMessageHandled == swMsgs' = swMsgs + 1

\* the answers that carried staged data
Deliveries == { i \in DOMAIN clientInbox : ~clientInbox[i].data.isNull }

\* C24: the staged upload is consumed at most once. A pull is answered in
\* the same step with exactly one postData message that carries what the
\* slot holds (the staged data, or null when nothing is staged) and leaves
\* the slot empty; so what one POST staged is never handed out twice, the
\* slot never holds data that was handed out, and a pull that follows a pull
\* without a store in between is answered with null.
C24_ConsumedAtMostOnce ==
    /\ [](/\ \A i, j \in Deliveries :
                i # j => clientInbox[i].data.post # clientInbox[j].data.post
          /\ \A i \in Deliveries :
                pendingPostData.isNull \/ pendingPostData.post # clientInbox[i].data.post
          /\ \A i \in DOMAIN clientInbox : clientInbox[i].type = "postData"
          /\ \A i, j \in DOMAIN clientInbox :
                i # j => clientInbox[i].pull # clientInbox[j].pull)
    /\ [][ SwMessageHandled =>
              \A client \in Clients :
                  OnMessage(client, GetPostData) =>
                      /\ clientInbox' = Append(clientInbox,
                            [client |-> client, type |-> "postData",
                             data |-> pendingPostData, pull |-> swMsgs'])
                      /\ pendingPostData' = Null ]_vars

\* one POST staged a file; the first pull got it and the second pull, with
\* no store in between, got null
C24_Witness ==
    /\ nFetches = 1
    /\ Len(clientInbox) = 2
    /\ ~clientInbox[1].data.isNull
    /\ clientInbox[1].data.buffer = FormA.file.bytes
    /\ clientInbox[2].data = Null
    /\ pendingPostData = Null

----------------------------------------------------------------------------
(* C25 *)

\* the step in which the handling of fetches[i], a POST with a file, passes
\* the assignment to pendingPostData
Stores(i) ==
    /\ fetches[i].stage = "formData"
    /\ Len(fetches') = Len(fetches)
    /\ fetches'[i].stage = "page"

\* what the POST of fetches[i] declares: bytes, filename, format and options
Declared(i) ==
    PostData(fetches[i].request.form, fetches[i].id, fetches[i].request.client)

\* the step is a pull: one postData message is posted
Pulls == Len(clientInbox') = Len(clientInbox) + 1

\* C25: the slot has capacity one and the last write wins. When a POST with a
\* file stores, the slot holds that POST's data and nothing else, whatever it
\* held before, and nobody is told; the slot changes in no other way than by
\* such a store or by a pull, and a pull hands out what the slot holds: so
\* after a second store the next pull returns the second POST's data and the
\* first POST's data is never handed out.
C25_LastWriteWins ==
    /\ [][ /\ \A i \in DOMAIN fetches :
                Stores(i) => /\ pendingPostData' = Declared(i)
                             /\ UNCHANGED <<clientInbox, answered>>
           /\ pendingPostData' # pendingPostData =>
                \/ \E i \in DOMAIN fetches : Stores(i)
                \/ Pulls /\ pendingPostData' = Null
           /\ Pulls => clientInbox'[Len(clientInbox')].data = pendingPostData ]_vars
    /\ [](\A i \in Deliveries :
             \E r \in Requests :
                 clientInbox[i].data =
                     PostData(r.form, clientInbox[i].data.post, r.client))

\* two POSTs with a file were received and both stored; the one pull since
\* got the data of the second POST, and the slot is empty: the data of the
\* first POST was overwritten before anyone asked for it
C25_Witness ==
    /\ nFetches = 2
    /\ clientInbox # << >>
    /\ Len(clientInbox) = 1
    /\ clientInbox[1].data.post = 2
    /\ pendingPostData = Null
    /\ \/ \E i \in DOMAIN fetches : fetches[i].id = 1 /\ fetches[i].stage = "page"
       \/ answered.fetch.id = 1 /\ answered.response.kind = "page"

----------------------------------------------------------------------------
(* C26 *)

\* the request of a fetch event that is cache-only and not same-origin
CacheOnlyCrossOrigin(r) == r.cache = "only-if-cached" /\ r.mode # "same-origin"

\* the response carries the three isolation headers
Isolated(response) ==
    /\ IsolationHeaders \subseteq response.headers
    /\ response.coep \in {"credentialless", "require-corp"}

\* C26 as stated: every response the service worker returns carries the
\* three isolation headers, and a request is left untouched only if it is
\* cache-only and not same-origin.
C26_Original ==
    answered.fetch.id >= 1 =>
        /\ answered.response.kind \in {"rewritten", "opaque", "page", "redirect"}
              => Isolated(answered.response)
        /\ answered.response = Untouched
              => CacheOnlyCrossOrigin(answered.fetch.request)

\* C26, amended: every response with a status other than 0 that the service
\* worker got from the network for an intercepted request, and every page it
\* returns for a POST with a file, carries the three isolation headers. An
\* opaque response (status 0) is returned as it came, and the 302 redirect
\* that answers a diverted POST without a file, or one whose handling threw,
\* carries none of them. A request is left untouched only if it is
\* cache-only and not same-origin (and not a diverted POST).
C26_IsolationHeaders ==
    answered.fetch.id >= 1 =>
        LET r == answered.fetch.request
            response == answered.response IN
        /\ response.kind \in {"rewritten", "page"} => Isolated(response)
        /\ response.kind = "rewritten" => ~IsUpload(r) /\ response.status # 0
        /\ response.kind = "opaque" =>
              ~IsUpload(r) /\ response.status = 0 /\ response.headers = {}
        /\ response.kind \in {"page", "redirect"} => IsUpload(r)
        /\ response.kind = "redirect" =>
              response.status = 302 /\ response.headers \cap IsolationHeaders = {}
        /\ response = Untouched <=> ~IsUpload(r) /\ CacheOnlyCrossOrigin(r)

\* credentialless mode was switched on, and a same-origin cache-only request
\* has just been answered with a rewritten response
C26_Witness ==
    /\ answered.fetch.id >= 1
    /\ answered.fetch.request.cache = "only-if-cached"
    /\ answered.fetch.request.mode = "same-origin"
    /\ answered.response.kind = "rewritten"
    /\ IsolationHeaders \subseteq answered.response.headers
    /\ answered.response.coep = "credentialless"

----------------------------------------------------------------------------
(* C27 *)

\* the paths of the page: the root and the entry paths
EntryPaths == {"/", "/index.html", "/document-converter/upload"}

\* a POST that carries a file to the root or to an entry path
FilePost(r) ==
    /\ r.method = "POST"
    /\ r.form.file.kind = "File"
    /\ pathname(r.url) \in EntryPaths

\* the handling of fetches[i] ends in this step
Ends(i) ==
    /\ Len(fetches') = Len(fetches) - 1
    /\ answered'.fetch = fetches[i]

\* C27: a POST carrying a file to the root or an entry path is never
\* forwarded to the network; its handling first stores the file's bytes with
\* the declared filename, format and options in the slot and then answers
\* with the page, status 200, with the postData marker in it; so a page is
\* returned only by a handling that has stored.
C27_FilePostStagedThenPage ==
    /\ [](/\ \A i \in DOMAIN fetches :
                FilePost(fetches[i].request) => fetches[i].sent.method # "POST"
          /\ FilePost(answered.fetch.request) =>
                /\ answered.fetch.sent.method # "POST"
                /\ answered.response.kind = "page"
                /\ answered.response.status = 200
                /\ answered.response.marker)
    /\ [][ \A i \in DOMAIN fetches :
              /\ (Ends(i) /\ answered'.response.kind = "page")
                    => fetches[i].stage = "page"
              /\ Stores(i) => pendingPostData' = Declared(i) ]_vars

----------------------------------------------------------------------------
(* C28 *)

\* the entries of a parameter that is present: its comma-separated pieces,
\* blanks around them aside
Entries(param) == { trim(param[i]) : i \in 1..Len(param) }

\* C28: the whitelist is fixed when the page loads and never changes; when
\* the origins parameter is absent every origin is allowed, and when it is
\* present an origin is allowed exactly if it is 'null' or one of the
\* parameter's comma-separated entries.
C28_WhitelistFromParameter ==
    /\ [][ /\ allowedOriginsParam' = allowedOriginsParam
           /\ allowedOrigins' = allowedOrigins ]_vars
    /\ [](allowedOriginsParam = NoParam =>
             \A origin \in Origins : isOriginAllowed(origin))
    /\ [](allowedOriginsParam # NoParam =>
             \A origin \in Origins :
                 isOriginAllowed(origin) <=>
                     (origin = NullOrigin \/ origin \in Entries(allowedOriginsParam)))

----------------------------------------------------------------------------
(* C29 *)

\* the listener run of this step accepted a convert call
Accepts == ListenerRan /\ calls'[nCalls'].branch = "accepted"

\* the requestId under which the call accepted in this step is registered
RegisteredIds == { r \in DOMAIN pendingRequests' : pendingRequests'[r].call = nCalls' }

\* C29: the requestId under which a request is registered, supplied by the
\* caller or generated because the message carried none, is not the id of a
\* request that is outstanding; so two messages without a requestId never
\* share a generated id while both are outstanding.
C29_RegisteredIdIsFresh ==
    [][ Accepts =>
            /\ RegisteredIds \cap DOMAIN pendingRequests = {}
            /\ calls'[nCalls'].requestId = Undefined =>
                  \A r \in RegisteredIds :
                      \A q \in DOMAIN pendingRequests :
                          calls[pendingRequests[q].call].requestId = Undefined => r # q ]_vars

----------------------------------------------------------------------------
(* C30 *)

\* the script-injection directive has been sent: it is on its way to the
\* worker, or the worker has run the script
Injected ==
    \/ \E k \in DOMAIN toWorker : toWorker[k] = RunThrScript
    \/ worker.state \in {"idle", "loaded"}

\* the state of the handshake, by its position in the order Uninitialized,
\* WorkerBooting, ScriptInjected, Ready
HandshakeState ==
    IF moduleReady THEN 3
    ELSE IF Injected THEN 2
    ELSE IF zHM THEN 1
    ELSE 0

\* the step appends the readiness announcement to the worker's channel
Announces ==
    /\ Len(fromWorker') = Len(fromWorker) + 1
    /\ fromWorker'[Len(fromWorker')] = ReadyCmd

\* C30: the handshake moves through Uninitialized, WorkerBooting,
\* ScriptInjected, Ready in this order, one state at a time and never back.
\* isReady() becomes true only in the step that handles the worker's
\* readiness announcement, and the announcement is sent only by the worker
\* running the injected script; isReady() is true in Ready alone, and never
\* before the engine exists and the script was injected.
C30_HandshakeOrder ==
    /\ [][ /\ HandshakeState' \in {HandshakeState, HandshakeState + 1}
           /\ (~moduleReady /\ moduleReady') =>
                  /\ fromWorker # << >>
                  /\ Head(fromWorker) = ReadyCmd
                  /\ fromWorker' = Tail(fromWorker)
           /\ Announces =>
                  /\ worker.state = "started"
                  /\ toWorker # << >>
                  /\ Head(toWorker) = RunThrScript
                  /\ worker'.state = "idle" ]_vars
    /\ [](moduleReady => zHM /\ onmessage /\ worker.state \in {"idle", "loaded"})

\* the handshake has just reached Ready: the announcement of the injected
\* script was handled, and nothing else has happened yet
C30_Witness ==
    /\ HandshakeState = 3
    /\ last.handler = "worker" /\ last.branch = "ready"
    /\ worker.state = "idle"
    /\ toWorker = << >> /\ fromWorker = << >>
    /\ nCalls = 0

----------------------------------------------------------------------------
(* C31 *)

\* the step takes the first message out of the worker's channel
TakesHead == fromWorker # << >> /\ fromWorker' = Tail(fromWorker)

\* the branches the handler can take for message d of the worker: the
\* engine's own announcement is answered with the script (first listing) or
\* ignored
BranchesFor(d) ==
    IF d.cmd = "ready" THEN {"ready"}
    ELSE IF d.cmd \notin {"converted", "error"} THEN {"injected", "ignored"}
    ELSE IF ~MapHas(pendingRequests, d.requestId) THEN {"stale"}
    ELSE IF d.cmd = "error" THEN {"error"}
    ELSE IF d.to \in DOMAIN FS THEN {"result"}
    ELSE {"readFailed"}

\* the step hands the first message of the worker's channel to the handler
HandlerRanOnHead ==
    /\ onmessage
    /\ last'.handler = "worker"
    /\ last'.requestId = Head(fromWorker).requestId
    /\ last'.branch \in BranchesFor(Head(fromWorker))

\* the step posts one message on the worker's channel, behind those waiting
PostsBehind ==
    /\ Len(fromWorker') = Len(fromWorker) + 1
    /\ SubSeq(fromWorker', 1, Len(fromWorker)) = fromWorker

\* C31: the set-up of the handler is reentrant and never fails for lack of
\* the channel. While the engine exists and no handler is attached, an
\* attempt is pending (deferred, not given up), and a handler is never
\* attached to an absent port. An attempt ends only with the port present
\* and the handler attached, and once the port exists no new attempt is
\* scheduled: polling stops. Every message of the worker waits in the
\* channel until the handler is there, and leaves it only by being handled:
\* in the order sent, one at a time, by the handler's branch for it.
C31_SetupReentrant ==
    /\ [](zHM /\ ~onmessage => pendingSetups > 0)
    /\ [](onmessage => thrPort)
    /\ [](fromWorker # << >> /\ ~onmessage => pendingSetups > 0)
    /\ [][ /\ pendingSetups' < pendingSetups => thrPort /\ onmessage'
           /\ thrPort => pendingSetups' <= pendingSetups
           /\ onmessage => onmessage'
           /\ fromWorker' # fromWorker =>
                  \/ PostsBehind
                  \/ TakesHead /\ HandlerRanOnHead ]_vars

\* the call initZetaJS makes at once found no port (the port exists only
\* after the engine started) and was deferred; a later attempt attached the
\* handler, the worker's first message has been handled by it, and no
\* attempt is pending any more
C31_Witness ==
    /\ onmessage /\ pendingSetups = 0
    /\ moduleReady
    /\ last.handler = "worker" /\ last.branch = "ready"
    /\ fromWorker = << >>

----------------------------------------------------------------------------
(* C32 *)

\* a deletion of the cleanup of reply d fails: FS.unlink throws on a file
\* that does not exist
CleanupFails(d) == d.from \notin DOMAIN FS \/ d.to \notin DOMAIN FS

\* C32: cleanup failures are swallowed. When a converted reply for a
\* registered requestId is handled, the output is read, and a deletion of
\* the staged input or output fails, then the step still posts exactly one
\* message, the result with the output's bytes to the registered source, no
\* error message is posted, and the ledger entry is removed.
C32_CleanupFailureSwallowed ==
    [][ ReplyTaken =>
            \A d \in {Head(fromWorker)} :
                (ConvertedHandled(d) /\ d.to \in DOMAIN FS /\ CleanupFails(d)) =>
                    /\ AnsweredWith("result", d.requestId)
                    /\ outbox'[Len(outbox')].blob.data = FS[d.to]
                    /\ outbox'[Len(outbox')].error = Undefined
                    /\ \A i \in DOMAIN outbox' :
                          outbox'[i].type = "error" => i \in DOMAIN outbox
                    /\ last'.branch = "result" ]_vars

\* a converted reply has just been answered with a result although the
\* staged input was already gone: the output it read is still in place,
\* nothing is in flight that could have written it since, and the ledger is
\* empty
C32_Witness ==
    /\ last.handler = "worker" /\ last.branch = "result"
    /\ outbox # << >>
    /\ outbox[Len(outbox)].type = "result"
    /\ outbox[Len(outbox)].requestId = last.requestId
    /\ inputPath \notin DOMAIN FS
    /\ FS # << >>
    /\ Quiescent
    /\ pendingRequests = << >>

----------------------------------------------------------------------------
(* C33 *)

\* the request ids of the convert commands sent to the worker whose reply has
\* not been handled yet: the command waits in the channel, the worker is
\* working on it, or its reply waits in the channel
InFlight ==
    { toWorker[k].requestId : k \in { j \in DOMAIN toWorker : toWorker[j].cmd = "convert" } }
    \cup ( IF worker.state = "loaded" THEN {worker.cmd.requestId} ELSE {} )
    \cup { fromWorker[k].requestId :
              k \in { j \in DOMAIN fromWorker : fromWorker[j].cmd \in {"converted", "error"} } }

\* C33: between handler runs the ledger holds a requestId if and only if a
\* convert command carrying it was sent to the worker and the reply to that
\* command has not been handled yet.
C33_LedgerMatchesInFlight ==
    DOMAIN pendingRequests = InFlight

----------------------------------------------------------------------------
(* C34 *)

\* what the engine writes for the input bytes `bytes` and the output format
EngineOutput(bytes, format) == [src |-> bytes, filter |-> filterName(format)]

\* C34: when callers serialise conversions, every result delivered carries
\* the engine's output for the bytes that were supplied with the call it
\* answers, in the format it names: never the output of another request.
C34_ResultIsOfOwnInput ==
    \A i \in DOMAIN outbox :
        outbox[i].type = "result" =>
            outbox[i].blob.data =
                EngineOutput(PayloadBytes(calls[outbox[i].call].payload), outbox[i].format)

----------------------------------------------------------------------------
(* C35 *)

\* the worker's message d is a reply for a registered requestId and the step
\* handles it: the request reaches its terminal resolution
Resolves(d) ==
    /\ d.cmd \in {"converted", "error"}
    /\ d.requestId \in DOMAIN pendingRequests
    /\ handleWorkerMessage(d)

\* C35: once a request has been resolved, with a result or with an error
\* (worker error reply or output read failure), the staged input written for
\* it no longer exists. Stated for callers that serialise, so that the file
\* at the input path is the one written for the request being resolved.
C35_InputGoneAfterResolution ==
    [][ ReplyTaken =>
            \A d \in {Head(fromWorker)} :
                Resolves(d) =>
                    /\ Terminal(outbox'[Len(outbox')])
                    /\ inputPath \notin DOMAIN FS' ]_vars

----------------------------------------------------------------------------
(* C36 *)

\* the step takes the convert command c, the first of the channel, into the
\* worker script
Receives(c) ==
    /\ toWorker # << >>
    /\ c = Head(toWorker)
    /\ c.cmd = "convert"
    /\ toWorker' = Tail(toWorker)

\* the step posts exactly one reply on the worker's channel, of one of
\* `kinds`, carrying requestId
RepliesOnce(kinds, requestId) ==
    /\ PostsBehind
    /\ fromWorker'[Len(fromWorker')].cmd \in kinds
    /\ fromWorker'[Len(fromWorker')].requestId = requestId

\* the step posts a reply to a command, or more than one message
PostsReply ==
    /\ Len(fromWorker') > Len(fromWorker)
    /\ \/ Len(fromWorker') > Len(fromWorker) + 1
       \/ fromWorker'[Len(fromWorker')].cmd \in {"converted", "error"}

\* C36: the worker script answers every convert command it receives exactly
\* once, with a converted or an error reply carrying the command's
\* requestId. The script is either done with a command in the step that
\* receives it (one error reply) or keeps it, receives no other command
\* while it has it, and is done with it in one later step (one converted
\* reply); no reply is posted by any other step.
C36_OneReplyPerCommand ==
    [][ /\ \A c \in { toWorker[k] : k \in DOMAIN toWorker \cap {1} } :
              Receives(c) =>
                  \/ /\ worker'.state = "loaded" /\ worker'.cmd = c
                     /\ fromWorker' = fromWorker
                  \/ /\ worker'.state = "idle"
                     /\ RepliesOnce({"error"}, c.requestId)
        /\ worker.state = "loaded" =>
              /\ Len(toWorker') >= Len(toWorker)
              /\ worker' # worker =>
                    /\ worker'.state = "idle"
                    /\ RepliesOnce({"converted"}, worker.cmd.requestId)
              /\ worker' = worker => Len(fromWorker') <= Len(fromWorker)
        /\ PostsReply =>
              \/ worker.state = "loaded" /\ worker'.state = "idle"
              \/ worker.state = "idle" /\ worker'.state = "idle"
                   /\ \E c \in {Head(toWorker)} : Receives(c) ]_vars

\* the script has answered two commands, the first with an error after an
\* exception of the engine, the second with a converted reply; both replies
\* wait in the channel and no command is left
C36_Witness ==
    /\ Len(fromWorker) = 2
    /\ fromWorker[1].cmd = "error" /\ fromWorker[1].error = EngineFault
    /\ fromWorker[2].cmd = "converted"
    /\ toWorker = << >>
    /\ worker.state = "idle"
    /\ nCalls = 2

----------------------------------------------------------------------------
(* C37 *)

\* the handling of fetches[i] has passed the assignment to pendingPostData:
\* it waits for the page
HasStored(i) == fetches[i].stage = "page"

\* C37: a POST whose handling ends in a redirect instead of the page leaves
\* the slot as it was: the handling has stored nothing on its way, the step
\* that answers with the redirect does not change the slot, and the slot
\* does not hold what that POST carried.
C37_RedirectLeavesSlot ==
    [][ \A i \in DOMAIN fetches :
            (Ends(i) /\ answered'.response.kind = "redirect") =>
                /\ ~HasStored(i)
                /\ pendingPostData' = pendingPostData
                /\ pendingPostData'.isNull \/ pendingPostData'.post # fetches[i].id ]_vars

----------------------------------------------------------------------------
(* C38 *)

\* C38: staged data is handed out only to the page that the POST which
\* staged it loads: every answer to a pull that carries data goes to the
\* client of that POST.
C38_DeliveredToOwnPage ==
    \A i \in Deliveries : clientInbox[i].client = clientInbox[i].data.page

----------------------------------------------------------------------------
(* C39 *)

\* the step is a page load
Loads == nLoads' = nLoads + 1

\* the step calls window.location.reload() in the page
Reloads == coiPage'.reloading /\ ~coiPage.reloading /\ nLoads' = nLoads

\* C39: reloads asked for by the script do not chain. doReload leaves the
\* session item set when it reloads; a page load that finds the item set
\* removes it, does not register the service worker and attaches no
\* listener; so the page loaded by a reload of the script never reloads
\* itself, and the item is set only while such a reload is under way.
C39_ReloadsDoNotChain ==
    /\ [][ /\ Reloads => coiReloadedBySelf' # NoItem
           /\ (Loads /\ coiReloadedBySelf # NoItem) =>
                  /\ coiReloadedBySelf' = NoItem
                  /\ coiPage'.phase \in {"isolated", "willNotRegister"}
                  /\ ~coiPage'.listening /\ ~coiPage'.reloading
           /\ (Loads /\ coiPage.reloading) =>
                  coiPage'.by = "self" /\ coiReloadedBySelf # NoItem ]_vars
    /\ [](coiPage.by = "self" =>
              /\ coiPage.reloadedBySelf # NoItem
              /\ coiPage.phase \in {"isolated", "willNotRegister"}
              /\ ~coiPage.listening
              /\ ~coiPage.reloading)
    /\ [](coiReloadedBySelf # NoItem <=> coiPage.reloading)

\* the user loaded the page, the registration succeeded with the worker
\* active and not controlling the page, and the script reloaded; the page of
\* that reload found the item, removed it and will not register
C39_Witness ==
    /\ nLoads = 2
    /\ coiPage.by = "self"
    /\ coiPage.reloadedBySelf = "true"
    /\ ~coiPage.crossOriginIsolated
    /\ coiPage.phase = "willNotRegister"
    /\ coiReloadedBySelf = NoItem

====
